---- MODULE Spec2Model ----
(***************************************************************************)
(* A model of the ingestion write path (idempotent insertion guarded by    *)
(* the persisted signature index) and of the query pipeline of the         *)
(* retrieval-augmented question-answering service.                         *)
(*                                                                         *)
(*   src/src/components/vectorstore_manager.py  signature index + store    *)
(*   src/src/services/tasks.py                  the Celery ingestion task  *)
(*   src/src/components/document_processor.py   page and section extraction*)
(*   src/src/components/text_splitter.py        chunking                   *)
(*   src/src/components/reranker.py             cross-encoder re-ranker    *)
(*   src/src/pipeline/rag_chain.py              the LCEL query chain       *)
(***************************************************************************)
EXTENDS Integers, Sequences, FiniteSets, TLC

VARIABLES
    store,        \* the Chroma collection: one entry per inserted chunk
    file,         \* doc_hash_index.json on disk
    hash_index,   \* per worker process: the module global _hash_index
    pc,           \* per worker process: position inside the running task
    batch,        \* per worker process: chunked_docs of the running call
    docs_to_add,  \* per worker process: the local list docs_to_add
    hashes_to_add,\* per worker process: the local list hashes_to_add
    ret,          \* per worker process: value returned by the running call
    cur,          \* per worker process: facts recorded about the running call
    prev,         \* per worker process: facts recorded about the last finished call
    ncalls,       \* number of add_documents_to_store calls started so far
    concurrent,   \* pairs of call ids that were in progress at the same time
    sig_log,      \* the _get_document_signature calls made so far, with their results
    q_pc,         \* the pipeline call: "idle", "running", "DONE" or "FAILED"
    q_in,         \* the input dict of the pipeline call
    branch,       \* per key of the RunnableParallel: the state of that sub-chain
    q_out,        \* the records returned by the pipeline call (none or one)
    q_err,        \* the errors raised by the pipeline call (none or one)
    n_search,     \* similarity searches run for the pipeline call
    n_rerank,     \* reranker runs for the pipeline call
    reranker,     \* the CrossEncoderReranker built: none or one
    rr_log,       \* the CrossEncoderReranker.rerank calls made so far, with their results
    ex_log,       \* the extract_pages_from_pdf calls made so far, with their results
    ck_log,       \* the chunk_documents calls made so far, with their results
    t_pc,         \* process_pdf_task: the step the running attempt stands at
    t_doc,        \* process_pdf_task: the document behind pending_filepath
    t_retries,    \* process_pdf_task: self.request.retries of the running attempt
    t_pending,    \* where the input file is: "pending", "failed" or "removed"
    t_processed,  \* whether the copy in PROCESSED_DIR exists
    t_step,       \* process_pdf_task: the local current_step
    t_pages,      \* process_pdf_task: the local pages
    t_chunks,     \* process_pdf_task: the local chunks
    t_status,     \* how the last attempt ended
    t_runs,       \* one record per finished attempt of the task
    t_flags,      \* facts recorded about the task over all its attempts
    t_calls,      \* the calls the running attempt has made to its stages, in order
    t_ret,        \* the value process_pdf_task returned last (none or one)
    s_up,         \* the components that can be initialized at present
    s_cache,      \* the components whose lazy global is set
    s_chain,      \* whether the global _rag_chain is set
    s_ret,        \* what the last setup_rag_chain call did
    s_calls       \* setup_rag_chain calls made so far

storeVars == <<store, file, hash_index, pc, batch, docs_to_add, hashes_to_add,
               ret, cur, prev, ncalls, concurrent>>
sigVars == <<sig_log>>
queryVars == <<q_pc, q_in, branch, q_out, q_err, n_search, n_rerank>>

rerankVars == <<reranker, rr_log>>
extractVars == <<ex_log>>
chunkVars == <<ck_log>>
taskVars == <<t_pc, t_doc, t_retries, t_pending, t_processed, t_step, t_pages, t_chunks,
              t_status, t_runs, t_flags, t_calls, t_ret>>
setupVars == <<s_up, s_cache, s_chain, s_ret, s_calls>>

vars == <<storeVars, sigVars, queryVars, rerankVars, extractVars, chunkVars, taskVars, setupVars>>

\* what add_documents_to_store leaves alone, the task that calls it aside
besideTask == <<sigVars, queryVars, rerankVars, extractVars, chunkVars, setupVars>>

\* what the steps of the write path leave alone
notStoreVars == <<besideTask, taskVars>>

\* what the steps of the query chain leave alone
notQueryVars == <<storeVars, sigVars, rerankVars, extractVars, chunkVars, taskVars, setupVars>>

----------------------------------------------------------------------------
(* Bounds of the model.                                                    *)

\* add_documents_to_store calls started in one behaviour
MaxCalls == 2
\* chunks in one batch
MaxBatch == 2

----------------------------------------------------------------------------
(* Data.  A text is a string over the two letters 'a' and 'b', held as its *)
(* length and the set of 0-based positions that carry a 'b'; two texts are *)
(* equal as strings exactly when the records are equal.                    *)

Min(a, b) == IF a <= b THEN a ELSE b

\* Python's text[:n]
Slice(text, n) ==
    [len |-> Min(text.len, n), marks |-> {i \in text.marks : i < n}]

TextPlain == [len |-> 300, marks |-> {}]
\* differs from TextPlain at the 201st character only
TextTail == [len |-> 300, marks |-> {200}]
\* differs from TextPlain at the 200th character only
TextHead == [len |-> 300, marks |-> {199}]
TextShort == [len |-> 150, marks |-> {}]

\* the worker processes of the Celery pool
Procs == {"w1", "w2"}

Doc(source, page, section, text) ==
    [page_content |-> text,
     metadata |-> [source |-> source, page |-> page, section |-> section]]

\* dict.get(key, default)
Get(d, key, default) == IF key \in DOMAIN d THEN d[key] ELSE default

D1 == Doc("a.pdf", 1, "Introduction", TextPlain)
\* same source, page and first 200 characters as D1; other section, other tail
D1x == Doc("a.pdf", 1, "Methods", TextTail)
D2 == Doc("a.pdf", 2, "Methods", TextPlain)

Docs == {D1, D1x, D2}

RECURSIVE SeqsUpTo(_, _)
SeqsUpTo(S, n) ==
    IF n = 0 THEN {<<>>}
    ELSE LET shorter == SeqsUpTo(S, n - 1)
         IN  shorter \cup {Append(s, x) : s \in {t \in shorter : Len(t) = n - 1}, x \in S}

Batches == SeqsUpTo(Docs, MaxBatch)

----------------------------------------------------------------------------
(* _get_document_signature                                                 *)

\* the number of leading characters of the text that enter the signature
HEAD_LEN == 200

\* str(doc.metadata.get("page", ""))
PageStr(md) == IF "page" \in DOMAIN md THEN ToString(md.page) ELSE ""

\* f"{source}|{page}|{head}"
RawSignature(doc) ==
    <<Get(doc.metadata, "source", ""), "|", PageStr(doc.metadata), "|",
      Slice(doc.page_content, HEAD_LEN)>>

\* hashlib.sha256(...).hexdigest(), taken to be collision free
Sha256Hex(raw) == [sha256 |-> raw]

\* a slip: the head is cut one character too late, text[:201]
GetDocumentSignature_LongHead(doc) ==
    Sha256Hex(<<Get(doc.metadata, "source", ""), "|", PageStr(doc.metadata), "|",
                Slice(doc.page_content, HEAD_LEN + 1)>>)

\* a slip: the whole text is hashed, not its first 200 characters
GetDocumentSignature_WholeText(doc) ==
    Sha256Hex(<<Get(doc.metadata, "source", ""), "|", PageStr(doc.metadata), "|",
                doc.page_content>>)

GetDocumentSignature(doc) == Sha256Hex(RawSignature(doc))

----------------------------------------------------------------------------
(* The signature index: a dict signature -> {source, page}, held as the    *)
(* set of its items.                                                       *)

IndexKeys(idx) == {e.sig : e \in idx}

\* hash_index[sig] = {"source": ..., "page": ...}
IndexPut(idx, sig, doc) ==
    {e \in idx : e.sig # sig}
        \cup {[sig |-> sig, source |-> Get(doc.metadata, "source", "None"),
                page |-> PageStr(doc.metadata)]}

RECURSIVE IndexPutAll(_, _, _)
\* the loop of lines 158-162
IndexPutAll(idx, sigs, docs) ==
    IF sigs = <<>> THEN idx
    ELSE IndexPutAll(IndexPut(idx, Head(sigs), Head(docs)), Tail(sigs), Tail(docs))

NotLoaded == [loaded |-> FALSE, idx |-> {}]
Loaded(idx) == [loaded |-> TRUE, idx |-> idx]

\* the file on disk: absent, a complete JSON document, or a truncated one;
\* old is the index of its last complete content
FileAbsent == [exists |-> FALSE, valid |-> FALSE, idx |-> {}, old |-> {}]
FileComplete(idx) == [exists |-> TRUE, valid |-> TRUE, idx |-> idx, old |-> idx]
\* open(index_path, "w") on the file f
FileTruncated(f) == [exists |-> TRUE, valid |-> FALSE, idx |-> {}, old |-> f.old]

\* a slip: an unparsable file is answered from its last complete content
LoadHashIndex_LastComplete(mem, f) ==
    IF mem.loaded THEN mem
    ELSE IF f.exists /\ f.valid THEN Loaded(f.idx)
    ELSE IF f.exists THEN Loaded(f.old)
    ELSE Loaded({})

\* _load_hash_index: the value of _hash_index after the call
LoadHashIndex(mem, f) ==
    IF mem.loaded THEN mem
    ELSE IF f.exists /\ f.valid THEN Loaded(f.idx)
    ELSE Loaded({})

RECURSIVE SelectNew(_, _)
\* the loop of lines 141-145: the chunks whose signature is not in the index
SelectNew(docs, idx) ==
    IF docs = <<>> THEN <<>>
    ELSE IF GetDocumentSignature(Head(docs)) \notin IndexKeys(idx)
         THEN <<Head(docs)>> \o SelectNew(Tail(docs), idx)
         ELSE SelectNew(Tail(docs), idx)

SigsOf(docs) == [i \in 1..Len(docs) |-> GetDocumentSignature(docs[i])]

\* the entries db.add_documents appends for one call
StoreEntries(docs, call) ==
    {[doc |-> docs[i], call |-> call, pos |-> i] : i \in 1..Len(docs)}

----------------------------------------------------------------------------
(* add_documents_to_store, called from step 4 of process_pdf_task.         *)

NoLoad == [from_file |-> FALSE, unparsable |-> FALSE, saving |-> FALSE, got |-> {},
           whole |-> {}]
NoCall == [id |-> 0, failed |-> FALSE, inserted |-> FALSE, idx0 |-> {}, to_add |-> <<>>,
           load |-> NoLoad, persisted |-> {}, saved |-> FALSE]
NoPrev == [batch |-> <<>>, ret |-> 0, failed |-> FALSE, inserted |-> FALSE,
           to_add |-> <<>>, status |-> "none", id |-> 0, saved |-> FALSE]

\* the signatures a complete index file holds
Persisted(f) == IF f.exists /\ f.valid THEN IndexKeys(f.idx) ELSE {}

\* what the read of line 52 meets: whether json.load raises JSONDecodeError,
\* whether a save of another process is under way, the index it gets, and the
\* complete indexes around that save
Observe(p, mem) ==
    [from_file |-> ~hash_index[p].loaded /\ file.exists,
     unparsable |-> ~hash_index[p].loaded /\ file.exists /\ ~file.valid,
     saving |-> \E q \in Procs : pc[q] = "write",
     got |-> mem.idx,
     whole |-> {file.old} \cup {hash_index[q].idx : q \in {r \in Procs : pc[r] = "write"}}]

ActiveCalls == {cur[p].id : p \in {q \in Procs : pc[q] # "idle"}}

\* process_pdf_task reaches step 4 with the chunk list b and calls
\* add_documents_to_store(b); an empty list returns 0 at once
Call(p, b) ==
    /\ pc[p] = "idle"
    /\ ncalls' = ncalls + 1
    /\ batch' = [batch EXCEPT ![p] = b]
    /\ cur' = [cur EXCEPT ![p] = [NoCall EXCEPT !.id = ncalls + 1,
                                                !.persisted = Persisted(file)]]
    /\ concurrent' = concurrent \cup {{c, ncalls + 1} : c \in ActiveCalls}
    /\ docs_to_add' = [docs_to_add EXCEPT ![p] = <<>>]
    /\ hashes_to_add' = [hashes_to_add EXCEPT ![p] = <<>>]
    /\ ret' = [ret EXCEPT ![p] = 0]
    /\ pc' = [pc EXCEPT ![p] = IF b = <<>> THEN "return" ELSE "check"]
    /\ UNCHANGED besideTask
    /\ UNCHANGED <<store, file, hash_index, prev>>

\* a slip: the loop of lines 158-162 left out, only the save is done
UpdatedIndex_Forgotten(p) == hash_index[p]

\* the index held in memory after the loop of lines 158-162
UpdatedIndex(p) ==
    Loaded(IndexPutAll(hash_index[p].idx, hashes_to_add[p], docs_to_add[p]))

\* a slip: the signatures are recorded while the batch is partitioned, before
\* the store insert is known to have succeeded
Check_Recording(p) ==
    /\ pc[p] = "check"
    /\ LET mem == LoadHashIndex(hash_index[p], file)
           new == SelectNew(batch[p], mem.idx)
       IN  /\ hash_index' = [hash_index EXCEPT ![p] =
                                Loaded(IndexPutAll(mem.idx, SigsOf(new), new))]
           /\ docs_to_add' = [docs_to_add EXCEPT ![p] = new]
           /\ hashes_to_add' = [hashes_to_add EXCEPT ![p] = SigsOf(new)]
           /\ cur' = [cur EXCEPT ![p].idx0 = mem.idx, ![p].to_add = new,
                                 ![p].load = Observe(p, mem)]
           /\ pc' = [pc EXCEPT ![p] = IF new = <<>> THEN "return" ELSE "insert"]
    /\ UNCHANGED notStoreVars
    /\ UNCHANGED <<store, file, batch, ret, prev, ncalls, concurrent>>

\* lines 135-151: load the index (reading the file when _hash_index is
\* None), partition the batch, return 0 when nothing is new
Check(p) ==
    /\ pc[p] = "check"
    /\ LET mem == LoadHashIndex(hash_index[p], file)
           new == SelectNew(batch[p], mem.idx)
       IN  /\ hash_index' = [hash_index EXCEPT ![p] = mem]
           /\ docs_to_add' = [docs_to_add EXCEPT ![p] = new]
           /\ hashes_to_add' = [hashes_to_add EXCEPT ![p] = SigsOf(new)]
           /\ cur' = [cur EXCEPT ![p].idx0 = mem.idx, ![p].to_add = new,
                                 ![p].load = Observe(p, mem)]
           /\ pc' = [pc EXCEPT ![p] = IF new = <<>> THEN "return" ELSE "insert"]
    /\ UNCHANGED notStoreVars
    /\ UNCHANGED <<store, file, batch, ret, prev, ncalls, concurrent>>

\* line 155 succeeds: db.add_documents(docs_to_add)
InsertOk(p) ==
    /\ pc[p] = "insert"
    /\ store' = store \cup StoreEntries(docs_to_add[p], cur[p].id)
    /\ cur' = [cur EXCEPT ![p].inserted = TRUE]
    /\ pc' = [pc EXCEPT ![p] = "update"]
    /\ UNCHANGED notStoreVars
    /\ UNCHANGED <<file, hash_index, batch, docs_to_add, hashes_to_add, ret, prev,
                   ncalls, concurrent>>

\* a slip: the index update and the save sit in a finally clause and run
\* after a failed insert too
InsertFail_Saving(p) ==
    /\ pc[p] = "insert"
    /\ cur' = [cur EXCEPT ![p].failed = TRUE]
    /\ pc' = [pc EXCEPT ![p] = "update"]
    /\ UNCHANGED notStoreVars
    /\ UNCHANGED <<store, file, hash_index, batch, docs_to_add, hashes_to_add, ret, prev,
                   ncalls, concurrent>>

\* a slip: the except branch of lines 168-171 still records the signatures
InsertFail_Recording(p) ==
    /\ pc[p] = "insert"
    /\ cur' = [cur EXCEPT ![p].failed = TRUE]
    /\ hash_index' = [hash_index EXCEPT ![p] = UpdatedIndex(p)]
    /\ ret' = [ret EXCEPT ![p] = 0]
    /\ pc' = [pc EXCEPT ![p] = "return"]
    /\ UNCHANGED notStoreVars
    /\ UNCHANGED <<store, file, batch, docs_to_add, hashes_to_add, prev,
                   ncalls, concurrent>>

\* line 155 raises: lines 168-171 log and return 0
InsertFail(p) ==
    /\ pc[p] = "insert"
    /\ cur' = [cur EXCEPT ![p].failed = TRUE]
    /\ ret' = [ret EXCEPT ![p] = 0]
    /\ pc' = [pc EXCEPT ![p] = "return"]
    /\ UNCHANGED notStoreVars
    /\ UNCHANGED <<store, file, hash_index, batch, docs_to_add, hashes_to_add, prev,
                   ncalls, concurrent>>

\* lines 158-162 update the index in memory; _save_hash_index then opens
\* the file for writing, which truncates it
SaveOpen(p) ==
    /\ pc[p] = "update"
    /\ hash_index' = [hash_index EXCEPT ![p] = UpdatedIndex(p)]
    /\ file' = FileTruncated(file)
    /\ pc' = [pc EXCEPT ![p] = "write"]
    /\ UNCHANGED notStoreVars
    /\ UNCHANGED <<store, batch, docs_to_add, hashes_to_add, ret, cur, prev,
                   ncalls, concurrent>>

\* as SaveOpen, but makedirs or open raises IOError: line 74 logs it and the
\* call goes on to return len(docs_to_add)
SaveOpenFail(p) ==
    /\ pc[p] = "update"
    /\ hash_index' = [hash_index EXCEPT ![p] = UpdatedIndex(p)]
    /\ ret' = [ret EXCEPT ![p] = Len(docs_to_add[p])]
    /\ pc' = [pc EXCEPT ![p] = "return"]
    /\ UNCHANGED notStoreVars
    /\ UNCHANGED <<store, file, batch, docs_to_add, hashes_to_add, cur, prev,
                   ncalls, concurrent>>

\* json.dump writes the whole index and the file is closed; line 166
SaveWrite(p) ==
    /\ pc[p] = "write"
    /\ file' = FileComplete(hash_index[p].idx)
    /\ cur' = [cur EXCEPT ![p].saved = TRUE]
    /\ ret' = [ret EXCEPT ![p] = Len(docs_to_add[p])]
    /\ pc' = [pc EXCEPT ![p] = "return"]
    /\ UNCHANGED notStoreVars
    /\ UNCHANGED <<store, hash_index, batch, docs_to_add, hashes_to_add, prev,
                   ncalls, concurrent>>

\* json.dump raises IOError part way: the truncated file stays, line 74 logs
SaveWriteFail(p) ==
    /\ pc[p] = "write"
    /\ ret' = [ret EXCEPT ![p] = Len(docs_to_add[p])]
    /\ pc' = [pc EXCEPT ![p] = "return"]
    /\ UNCHANGED notStoreVars
    /\ UNCHANGED <<store, file, hash_index, batch, docs_to_add, hashes_to_add, cur,
                   prev, ncalls, concurrent>>

\* add_documents_to_store returns to process_pdf_task, which goes on to
\* lines 145-151 whatever the count is
EndCall(p) ==
    /\ pc[p] = "return"
    /\ prev' = [prev EXCEPT ![p] =
                  [batch |-> batch[p], ret |-> ret[p], failed |-> cur[p].failed,
                   inserted |-> cur[p].inserted, to_add |-> cur[p].to_add,
                   status |-> "success", id |-> cur[p].id, saved |-> cur[p].saved]]
    /\ pc' = [pc EXCEPT ![p] = "idle"]
    /\ batch' = [batch EXCEPT ![p] = <<>>]
    /\ docs_to_add' = [docs_to_add EXCEPT ![p] = <<>>]
    /\ hashes_to_add' = [hashes_to_add EXCEPT ![p] = <<>>]
    /\ ret' = [ret EXCEPT ![p] = 0]
    /\ cur' = [cur EXCEPT ![p] = NoCall]
    /\ UNCHANGED besideTask
    /\ UNCHANGED <<store, file, hash_index, ncalls, concurrent>>

\* tasks.py lines 143-151: the task takes the returned count, removes the
\* pending file and returns status 'success'
TaskEnd(p) == EndCall(p) /\ UNCHANGED taskVars

\* the worker process is restarted between two tasks: its globals are lost
Restart(p) ==
    /\ pc[p] = "idle"
    /\ hash_index[p].loaded
    /\ hash_index' = [hash_index EXCEPT ![p] = NotLoaded]
    /\ prev' = [prev EXCEPT ![p] = NoPrev]
    /\ UNCHANGED notStoreVars
    /\ UNCHANGED <<store, file, pc, batch, docs_to_add, hashes_to_add, ret, cur,
                   ncalls, concurrent>>

\* what an earlier worker lifetime that ingested the batch <<D1>> left behind
EarlierStore == StoreEntries(<<D1>>, 0)
EarlierIndex == IndexPutAll({}, SigsOf(<<D1>>), <<D1>>)

\* the workers start on a fresh installation or on the store and index file
\* of an earlier lifetime
StoreInit ==
    /\ \/ store = {} /\ file = FileAbsent
       \/ store = EarlierStore /\ file = FileComplete(EarlierIndex)
    /\ hash_index = [p \in Procs |-> NotLoaded]
    /\ pc = [p \in Procs |-> "idle"]
    /\ batch = [p \in Procs |-> <<>>]
    /\ docs_to_add = [p \in Procs |-> <<>>]
    /\ hashes_to_add = [p \in Procs |-> <<>>]
    /\ ret = [p \in Procs |-> 0]
    /\ cur = [p \in Procs |-> NoCall]
    /\ prev = [p \in Procs |-> NoPrev]
    /\ ncalls = 0
    /\ concurrent = {}

----------------------------------------------------------------------------
(* _get_document_signature as a function: any process may compute the       *)
(* signature of any document, any number of times.                          *)

\* _get_document_signature calls in one behaviour
MaxSigCalls == 2

SigSources == {"a.pdf", "b.pdf"}
SigPages == {1, 2}
SigSections == {"Introduction", "Methods"}
SigTexts == {TextPlain, TextTail, TextHead, TextShort}

\* documents with complete metadata, and documents that lack source and page
SigDocs ==
    {Doc(s, n, sec, t) : s \in SigSources, n \in SigPages, sec \in SigSections,
                         t \in SigTexts}
        \cup {[page_content |-> t, metadata |-> [section |-> sec]] :
                 t \in SigTexts, sec \in SigSections}

\* process p computes the signature of d
SignatureCall(p, d) ==
    /\ Cardinality(sig_log) < MaxSigCalls
    /\ sig_log' = sig_log \cup
          {[n |-> Cardinality(sig_log) + 1, proc |-> p, doc |-> d,
            sig |-> GetDocumentSignature(d)]}
    /\ UNCHANGED <<storeVars, queryVars, rerankVars, extractVars, chunkVars, taskVars, setupVars>>

SigInit == sig_log = {}

----------------------------------------------------------------------------
(* CrossEncoderReranker                                                     *)

\* settings.RERANKER_TOP_N
RERANKER_TOP_N == 5
\* the default batch_size of CrossEncoderReranker.__init__
BATCH_SIZE == 64

\* a slip: the number of batches rounded down, the short last batch is lost
FloorDiv(a, b) == a \div b

\* math.ceil(a / b) for a >= 0, b >= 1
CeilDiv(a, b) == (a + b - 1) \div b

\* self.model.predict(pairs): one score per pair, in order; the model is the
\* table of its scores
Predict(model, pairs) == [i \in 1..Len(pairs) |-> model[pairs[i]]]

RECURSIVE ScoreLoop(_, _, _, _, _, _)
\* the loop of lines 121-134, from batch i on
ScoreLoop(model, query, texts, batch_size, i, scores) ==
    IF i >= CeilDiv(Len(texts), batch_size) THEN scores
    ELSE LET start_idx == i * batch_size
             end_idx == Min((i + 1) * batch_size, Len(texts))
             \* texts[j] for j in range(start_idx, end_idx), 0-based
             batch_pairs == [j \in 1..(end_idx - start_idx) |->
                                <<query, texts[start_idx + j]>>]
         IN  ScoreLoop(model, query, texts, batch_size, i + 1,
                       IF batch_pairs # <<>>
                       THEN scores \o Predict(model, batch_pairs)
                       ELSE scores)

\* _score_in_batches
ScoreInBatches(model, query, texts, batch_size) ==
    ScoreLoop(model, query, texts, batch_size, 0, <<>>)

\* a slip: x goes ahead of the elements of equal score, which turns the
\* order of equal scores around
InsertDesc_Unstable(x, sorted) ==
    LET ahead == {i \in 1..Len(sorted) : sorted[i][2] > x[2]}
        k == IF ahead = {} THEN 0 ELSE CHOOSE i \in ahead : \A j \in ahead : j <= i
    IN  SubSeq(sorted, 1, k) \o <<x>> \o SubSeq(sorted, k + 1, Len(sorted))

\* one step of list.sort(key=score, reverse=True): x goes behind every
\* element whose score is not smaller, so equal scores keep their order
InsertDesc(x, sorted) ==
    LET ahead == {i \in 1..Len(sorted) : sorted[i][2] >= x[2]}
        k == IF ahead = {} THEN 0 ELSE CHOOSE i \in ahead : \A j \in ahead : j <= i
    IN  SubSeq(sorted, 1, k) \o <<x>> \o SubSeq(sorted, k + 1, Len(sorted))

RECURSIVE SortDescFrom(_, _, _)
SortDescFrom(items, i, sorted) ==
    IF i > Len(items) THEN sorted
    ELSE SortDescFrom(items, i + 1, InsertDesc(items[i], sorted))

\* indexed_scores.sort(key=lambda x: x[1], reverse=True)
SortDesc(items) == SortDescFrom(items, 1, <<>>)

\* a slip: the slice [:self.top_n] of line 104 left out
Rerank_Unsliced(model, query, docs, top_n, batch_size) ==
    IF docs = <<>> THEN <<>>
    ELSE LET doc_contents == [i \in 1..Len(docs) |-> docs[i].page_content]
             scores == ScoreInBatches(model, query, doc_contents, batch_size)
             indexed_scores == [i \in 1..Len(scores) |-> <<i, scores[i]>>]
             ranked == SortDesc(indexed_scores)
         IN  [i \in 1..Len(ranked) |-> docs[ranked[i][1]]]

\* CrossEncoderReranker.rerank
Rerank(model, query, docs, top_n, batch_size) ==
    IF docs = <<>> THEN <<>>
    ELSE LET doc_contents == [i \in 1..Len(docs) |-> docs[i].page_content]
             scores == ScoreInBatches(model, query, doc_contents, batch_size)
             \* list(enumerate(scores)), with the 1-based position
             indexed_scores == [i \in 1..Len(scores) |-> <<i, scores[i]>>]
             ranked == SortDesc(indexed_scores)
             selected_indices == [i \in 1..Min(top_n, Len(ranked)) |-> ranked[i][1]]
         IN  [i \in 1..Len(selected_indices) |-> docs[selected_indices[i]]]

\* the lists of pairs _score_in_batches hands to self.model.predict, one
\* per call of it: the batches of lines 121-126 that are not empty
PredictCalls(query, texts, batch_size) ==
    LET batches ==
            [i \in 1..CeilDiv(Len(texts), batch_size) |->
                [j \in 1..(Min(i * batch_size, Len(texts)) - (i - 1) * batch_size) |->
                    <<query, texts[(i - 1) * batch_size + j]>>]]
    IN  SelectSeq(batches, LAMBDA b : b # <<>>)

\* the calls of self.model.predict that one call of rerank makes: none when
\* lines 81-83 return early
RerankPredictCalls(query, docs, batch_size) ==
    IF docs = <<>> THEN <<>>
    ELSE PredictCalls(query, [i \in 1..Len(docs) |-> docs[i].page_content], batch_size)

----------------------------------------------------------------------------
(* The query chain of setup_rag_chain.                                      *)

\* settings.BASE_RETRIEVER_K
BASE_RETRIEVER_K == 25

\* the all-sections value and the sentinel of line 101, in ASCII
ALL_SECTIONS == "Tum Bolumler"
NO_CONTEXT == "Saglanan baglamda ilgili bilgi bulunamadi."

Questions == {"What is Cas9?"}

\* the inputs of a pipeline call: with and without the key 'section'
QueryInputs ==
    {[question |-> q, section |-> sec] :
        q \in Questions, sec \in {ALL_SECTIONS, "", "Introduction", "Methods", "Results"}}
        \cup {[question |-> q] : q \in Questions}

\* a stand-in for the embedding similarity of a question and a chunk
Similarity(question, doc) ==
    3 - Cardinality(doc.page_content.marks)
      - (IF doc.page_content.len < 300 THEN 1 ELSE 0)

\* a stand-in for the scores of the cross-encoder model
CrossEncoder ==
    [pr \in Questions \X {d.page_content : d \in Docs} |->
        IF pr[2].marks = {} THEN 1 ELSE 2]

\* e comes before f in the result of a search: more similar first, entries
\* of equal similarity in the order of their insertion
Before(question, e, f) ==
    \/ Similarity(question, e.doc) > Similarity(question, f.doc)
    \/ /\ Similarity(question, e.doc) = Similarity(question, f.doc)
       /\ \/ e.call < f.call
          \/ e.call = f.call /\ e.pos <= f.pos

RECURSIVE Ranked(_, _)
Ranked(question, entries) ==
    IF entries = {} THEN <<>>
    ELSE LET first == CHOOSE e \in entries : \A f \in entries : Before(question, e, f)
         IN  <<first.doc>> \o Ranked(question, entries \ {first})

\* Chroma's similarity search with search_kwargs
SimilaritySearch(entries, question, search_kwargs) ==
    LET matching ==
            IF "filter" \in DOMAIN search_kwargs
            THEN {e \in entries :
                    /\ "section" \in DOMAIN e.doc.metadata
                    /\ e.doc.metadata.section = search_kwargs.filter.section}
            ELSE entries
        ranked == Ranked(question, matching)
    IN  SubSeq(ranked, 1, Min(search_kwargs.k, Len(ranked)))

\* a slip: the filter of lines 154-155 is never set
RetrieveBaseDocs_Unfiltered(input_dict, entries) ==
    SimilaritySearch(entries, input_dict.question, [k |-> BASE_RETRIEVER_K])

\* retrieve_base_docs
RetrieveBaseDocs(input_dict, entries) ==
    LET query == input_dict.question
        section == Get(input_dict, "section", ALL_SECTIONS)
        search_kwargs ==
            IF section # "" /\ section # ALL_SECTIONS
            THEN [k |-> BASE_RETRIEVER_K, filter |-> [section |-> section]]
            ELSE [k |-> BASE_RETRIEVER_K]
    IN  SimilaritySearch(entries, query, search_kwargs)

\* rerank_docs
RerankDocs(input_with_docs) ==
    Rerank(CrossEncoder, input_with_docs.question, input_with_docs.base_docs,
           RERANKER_TOP_N, BATCH_SIZE)

\* a slip: the blocks are numbered with i, from 0, not with i+1
FormatDocsWithSources_ZeroBased(docs) ==
    IF docs = <<>> THEN <<[sentinel |-> NO_CONTEXT]>>
    ELSE [i \in 1..Len(docs) |->
            [belge |-> i - 1,
             kaynak |-> Get(docs[i].metadata, "source", "Bilinmiyor"),
             sayfa |-> IF "page" \in DOMAIN docs[i].metadata
                       THEN ToString(docs[i].metadata.page) ELSE "N/A",
             bolum |-> Get(docs[i].metadata, "section", "N/A"),
             page_content |-> docs[i].page_content]]

\* a slip: lines 100-101 left out, no document gives an empty text
FormatDocsWithSources_EmptyBlock(docs) ==
    [i \in 1..Len(docs) |->
        [belge |-> i,
         kaynak |-> Get(docs[i].metadata, "source", "Bilinmiyor"),
         sayfa |-> IF "page" \in DOMAIN docs[i].metadata
                   THEN ToString(docs[i].metadata.page) ELSE "N/A",
         bolum |-> Get(docs[i].metadata, "section", "N/A"),
         page_content |-> docs[i].page_content]]

\* _format_docs_with_sources: the sentinel, or the blocks that "\n\n" joins
FormatDocsWithSources(docs) ==
    IF docs = <<>> THEN <<[sentinel |-> NO_CONTEXT]>>
    ELSE [i \in 1..Len(docs) |->
            [belge |-> i,
             kaynak |-> Get(docs[i].metadata, "source", "Bilinmiyor"),
             sayfa |-> IF "page" \in DOMAIN docs[i].metadata
                       THEN ToString(docs[i].metadata.page) ELSE "N/A",
             bolum |-> Get(docs[i].metadata, "section", "N/A"),
             page_content |-> docs[i].page_content]]

\* prompt | llm | StrOutputParser(): the answer the model gives to the prompt
\* filled with this context and this question
AnswerTo(context, question) == [answer_to |-> [context |-> context, question |-> question]]

\* the keys of the RunnableParallel of lines 214-225, in their order
Keys == <<"answer", "context_docs", "formatted_context">>
KeySet == {Keys[i] : i \in 1..Len(Keys)}

NoBranch == [pc |-> "off", base_docs |-> <<>>, docs |-> <<>>, context |-> <<>>,
             out |-> <<>>, err |-> ""]

\* chain.invoke(input_dict): every key starts its own sub-chain
Invoke(input_dict) ==
    /\ q_pc \in {"idle", "DONE", "FAILED"}
    /\ q_pc' = "running"
    /\ q_in' = input_dict
    /\ branch' = [k \in KeySet |-> [NoBranch EXCEPT !.pc = "retrieve"]]
    /\ q_out' = {}
    /\ q_err' = {}
    /\ n_search' = 0
    /\ n_rerank' = 0
    /\ UNCHANGED notQueryVars

\* a slip: retrieval goes through _load_hash_index and sets the global
\* _hash_index of its process
Retrieve_LoadsIndex(k) ==
    /\ q_pc = "running" /\ branch[k].pc = "retrieve"
    /\ branch' = [branch EXCEPT ![k].pc = "rerank",
                                ![k].base_docs = RetrieveBaseDocs(q_in, store)]
    /\ n_search' = n_search + 1
    /\ hash_index' = [hash_index EXCEPT !["w2"] = LoadHashIndex(@, file)]
    /\ UNCHANGED <<store, file, pc, batch, docs_to_add, hashes_to_add, ret, cur, prev,
                   ncalls, concurrent>>
    /\ UNCHANGED <<sigVars, rerankVars, extractVars, chunkVars, taskVars, setupVars>>
    /\ UNCHANGED <<q_pc, q_in, q_out, q_err, n_rerank>>

\* the sub-chain of key k runs retrieve_base_docs on the store as it is now
Retrieve(k) ==
    /\ q_pc = "running" /\ branch[k].pc = "retrieve"
    /\ branch' = [branch EXCEPT ![k].pc = "rerank",
                                ![k].base_docs = RetrieveBaseDocs(q_in, store)]
    /\ n_search' = n_search + 1
    /\ UNCHANGED <<notQueryVars, q_pc, q_in, q_out, q_err, n_rerank>>

\* a stage of the sub-chain of key k raises
StageFail(k, stage) ==
    /\ q_pc = "running" /\ branch[k].pc = stage
    /\ branch' = [branch EXCEPT ![k].pc = "failed", ![k].err = stage]
    /\ UNCHANGED <<notQueryVars, q_pc, q_in, q_out, q_err, n_search, n_rerank>>

RetrieveFail(k) == StageFail(k, "retrieve")
RerankFail(k) == StageFail(k, "rerank")
FormatFail(k) == StageFail(k, "format")
GenerateFail(k) == StageFail(k, "generate")

\* the sub-chain of key k runs rerank_docs on its own base_docs; that ends
\* the sub-chain of 'context_docs'
RerankStep(k) ==
    /\ q_pc = "running" /\ branch[k].pc = "rerank"
    /\ LET docs == RerankDocs([base_docs |-> branch[k].base_docs,
                               question |-> q_in.question])
       IN  branch' = [branch EXCEPT
                        ![k].docs = docs,
                        ![k].out = IF k = "context_docs" THEN docs ELSE <<>>,
                        ![k].pc = IF k = "context_docs" THEN "done" ELSE "format"]
    /\ n_rerank' = n_rerank + 1
    /\ UNCHANGED <<notQueryVars, q_pc, q_in, q_out, q_err, n_search>>

\* the sub-chain of key k formats its own reranked documents; that ends the
\* sub-chain of 'formatted_context'
FormatStep(k) ==
    /\ q_pc = "running" /\ branch[k].pc = "format"
    /\ LET text == FormatDocsWithSources(branch[k].docs)
       IN  branch' = [branch EXCEPT
                        ![k].context = text,
                        ![k].out = IF k = "formatted_context" THEN text ELSE <<>>,
                        ![k].pc = IF k = "formatted_context" THEN "done" ELSE "generate"]
    /\ UNCHANGED <<notQueryVars, q_pc, q_in, q_out, q_err, n_search, n_rerank>>

\* a slip: the prompt is filled with the documents as the reranker returns
\* them, not with their formatted text
GenerateStep_RawDocuments(k) ==
    /\ q_pc = "running" /\ branch[k].pc = "generate"
    /\ branch' = [branch EXCEPT
                    ![k].out = AnswerTo(branch[k].docs, q_in.question),
                    ![k].pc = "done"]
    /\ UNCHANGED <<notQueryVars, q_pc, q_in, q_out, q_err, n_search, n_rerank>>

\* the sub-chain of 'answer' sends its context and the question to the LLM
GenerateStep(k) ==
    /\ q_pc = "running" /\ branch[k].pc = "generate"
    /\ branch' = [branch EXCEPT
                    ![k].out = AnswerTo(branch[k].context, q_in.question),
                    ![k].pc = "done"]
    /\ UNCHANGED <<notQueryVars, q_pc, q_in, q_out, q_err, n_search, n_rerank>>

\* the error of the first key, in the order of the keys, whose sub-chain raised
FirstError ==
    LET failed == {i \in 1..Len(Keys) : branch[Keys[i]].pc = "failed"}
        i == CHOOSE i \in failed : \A j \in failed : i <= j
    IN  [key |-> Keys[i], stage |-> branch[Keys[i]].err]

\* a slip: a sub-chain that raised contributes an empty value and the call
\* still returns a record
Join_Partial ==
    /\ q_pc = "running"
    /\ \A k \in KeySet : branch[k].pc \in {"done", "failed"}
    /\ q_pc' = "DONE"
    /\ q_out' = {[k \in KeySet |-> branch[k].out]}
    /\ q_err' = {}
    /\ UNCHANGED <<notQueryVars, q_in, branch, n_search, n_rerank>>

\* a slip: the record of an earlier version of the chain, with the formatted
\* context under the key 'context' and without the documents
Join_AnswerAndContext ==
    /\ q_pc = "running"
    /\ \A k \in KeySet : branch[k].pc \in {"done", "failed"}
    /\ IF \E k \in KeySet : branch[k].pc = "failed"
       THEN q_pc' = "FAILED" /\ q_out' = {} /\ q_err' = {FirstError}
       ELSE /\ q_pc' = "DONE"
            /\ q_out' = {[answer |-> branch["answer"].out,
                          context |-> branch["formatted_context"].out]}
            /\ q_err' = {}
    /\ UNCHANGED <<notQueryVars, q_in, branch, n_search, n_rerank>>

\* RunnableParallel.invoke ends when every sub-chain has ended: it returns the
\* record of their outputs, or raises the first error
Join ==
    /\ q_pc = "running"
    /\ \A k \in KeySet : branch[k].pc \in {"done", "failed"}
    /\ IF \E k \in KeySet : branch[k].pc = "failed"
       THEN q_pc' = "FAILED" /\ q_out' = {} /\ q_err' = {FirstError}
       ELSE /\ q_pc' = "DONE"
            /\ q_out' = {[k \in KeySet |-> branch[k].out]}
            /\ q_err' = {}
    /\ UNCHANGED <<notQueryVars, q_in, branch, n_search, n_rerank>>

QueryInit ==
    /\ q_pc = "idle"
    /\ q_in = [question |-> "What is Cas9?"]
    /\ branch = [k \in KeySet |-> NoBranch]
    /\ q_out = {}
    /\ q_err = {}
    /\ n_search = 0
    /\ n_rerank = 0

----------------------------------------------------------------------------
(* CrossEncoderReranker.rerank as a function: rerankers built with any      *)
(* top_n and batch_size around one model rank any candidate list.           *)

\* candidates in one rerank call
MaxCandidates == 3
\* the largest top_n a reranker is built with
MaxTopN == 3
\* the largest batch_size a reranker is built with
MaxBatchSize == 2
\* rerank calls in one behaviour
MaxRerankCalls == 2

\* the scores a model gives
ScoreValues == {1, 2}

\* the models: every table of scores for the question and the texts of Docs
RerankModels == [Questions \X {d.page_content : d \in Docs} -> ScoreValues]

CandidateLists == SeqsUpTo(Docs, MaxCandidates)

\* CrossEncoderReranker(top_n, batch_size): _get_reranker_model loads the
\* model, __init__ keeps top_n and batch_size
NewReranker(model, top_n, batch_size) ==
    /\ reranker = {}
    /\ reranker' = {[model |-> model, top_n |-> top_n, batch_size |-> batch_size]}
    /\ UNCHANGED <<storeVars, sigVars, queryVars, rr_log, extractVars, chunkVars, taskVars, setupVars>>

\* self.rerank(query, docs) on the reranker built; formatted is what
\* formatted_context_chain makes of the result (line 191 of rag_chain.py)
RerankCall(query, docs) ==
    /\ Cardinality(rr_log) < MaxRerankCalls
    /\ \E self \in reranker :
          rr_log' = rr_log \cup
             {[n |-> Cardinality(rr_log) + 1, query |-> query, docs |-> docs,
               scores |-> ScoreInBatches(self.model, query,
                                         [i \in 1..Len(docs) |-> docs[i].page_content],
                                         self.batch_size),
               predict |-> RerankPredictCalls(query, docs, self.batch_size),
               out |-> Rerank(self.model, query, docs, self.top_n, self.batch_size),
               formatted |-> FormatDocsWithSources(
                                Rerank(self.model, query, docs, self.top_n,
                                       self.batch_size))]}
    /\ UNCHANGED <<storeVars, sigVars, queryVars, reranker, extractVars, chunkVars, taskVars, setupVars>>

RerankInit ==
    /\ reranker = {}
    /\ rr_log = {}

----------------------------------------------------------------------------
(* extract_pages_from_pdf.  A PDF is its path and its pages; a path is the  *)
(* sequence of its components; a page is the spans PyMuPDF reports for it,  *)
(* in reading order, and the text they join to; a span is its text, its     *)
(* bold flag and its font size.                                             *)

\* pages in one PDF
MaxPages == 3
\* spans on one page
MaxSpans == 2
\* extract_pages_from_pdf calls in one behaviour
MaxExtractCalls == 1

UNKNOWN == "Unknown"

\* os.path.basename
Basename(path) == path[Len(path)]

\* SECTION_REGEX.search(text), then match.group(0).capitalize(); "" for no
\* match.  The pattern is anchored at the start of a line and ignores case.
SectionMatch(text) ==
    CASE text = "Introduction" -> "Introduction"
      [] text = "METHODS" -> "Methods"
      [] text = "Results and discussion" -> "Results"
      [] OTHER -> ""

Span(text, bold, size) == [text |-> text, bold |-> bold, size |-> size]

\* _is_bold
IsBold(span) == span.bold

\* twice statistics.median(sizes), which for an even count is the mean of
\* the two middle values
Median2(sizes) ==
    LET n == Len(sizes)
        \* the k-th smallest value
        Kth(k) == CHOOSE v \in {sizes[i] : i \in 1..n} :
                      /\ Cardinality({i \in 1..n : sizes[i] < v}) < k
                      /\ Cardinality({i \in 1..n : sizes[i] <= v}) >= k
    IN  IF n % 2 = 1 THEN 2 * Kth((n + 1) \div 2)
        ELSE Kth(n \div 2) + Kth(n \div 2 + 1)

\* twice the median of _get_dominant_font_stats: of the sizes of the spans
\* of the page, 10.0 for a page without spans
DominantSize2(page) ==
    IF page.spans = <<>> THEN 20
    ELSE Median2([i \in 1..Len(page.spans) |-> page.spans[i].size])

\* a slip: a size equal to the threshold counts as a heading size
IsHeading_AtThreshold(page, span) ==
    /\ IsBold(span) \/ 2 * span.size >= DominantSize2(page) + 2
    /\ SectionMatch(span.text) # ""

\* lines 114-116: the span is bold or more than one point above the median
\* size, and the pattern matches its text
IsHeading(page, span) ==
    /\ IsBold(span) \/ 2 * span.size > DominantSize2(page) + 2
    /\ SectionMatch(span.text) # ""

RECURSIVE SectionAfter_FirstHeading(_, _, _)
\* a slip: the span loop is left at the first recognized heading
SectionAfter_FirstHeading(page, i, current_section) ==
    IF i > Len(page.spans) THEN current_section
    ELSE IF IsHeading(page, page.spans[i]) THEN SectionMatch(page.spans[i].text)
    ELSE SectionAfter_FirstHeading(page, i + 1, current_section)

RECURSIVE SectionAfter(_, _, _)
\* current_section after the spans of the page from the i-th on
SectionAfter(page, i, current_section) ==
    IF i > Len(page.spans) THEN current_section
    ELSE SectionAfter(page, i + 1,
                      IF IsHeading(page, page.spans[i])
                      THEN SectionMatch(page.spans[i].text)
                      ELSE current_section)

RECURSIVE ExtractFrom_ResetPerPage(_, _, _, _, _)
\* a slip: current_section starts from "Unknown" on every page
ExtractFrom_ResetPerPage(pdf, page_num, current_section, processed_pages, fail_at) ==
    IF page_num >= Len(pdf.pages) \/ page_num + 1 = fail_at THEN processed_pages
    ELSE LET page == pdf.pages[page_num + 1]
             section == SectionAfter(page, 1, UNKNOWN)
         IN  ExtractFrom_ResetPerPage(pdf, page_num + 1, section,
                         Append(processed_pages,
                                Doc(Basename(pdf.path), page_num + 1, section, page.text)),
                         fail_at)

RECURSIVE ExtractFrom_ZeroBased(_, _, _, _, _)
\* a slip: the page gets the number of enumerate(doc), which counts from 0
ExtractFrom_ZeroBased(pdf, page_num, current_section, processed_pages, fail_at) ==
    IF page_num >= Len(pdf.pages) \/ page_num + 1 = fail_at THEN processed_pages
    ELSE LET page == pdf.pages[page_num + 1]
             section == SectionAfter(page, 1, current_section)
         IN  ExtractFrom_ZeroBased(pdf, page_num + 1, section,
                         Append(processed_pages,
                                Doc(Basename(pdf.path), page_num, section, page.text)),
                         fail_at)

RECURSIVE ExtractFrom(_, _, _, _, _)
\* the loop of lines 90-137 from the page with 0-based number page_num on;
\* an exception on page fail_at ends the loop (lines 139-140)
ExtractFrom(pdf, page_num, current_section, processed_pages, fail_at) ==
    IF page_num >= Len(pdf.pages) \/ page_num + 1 = fail_at THEN processed_pages
    ELSE LET page == pdf.pages[page_num + 1]
             section == SectionAfter(page, 1, current_section)
         IN  ExtractFrom(pdf, page_num + 1, section,
                         Append(processed_pages,
                                Doc(Basename(pdf.path), page_num + 1, section, page.text)),
                         fail_at)

\* extract_pages_from_pdf on a file that exists; fail_at is the page on which
\* PyMuPDF raises, 0 when it raises on none
ExtractPagesFromPdf(pdf, fail_at) == ExtractFrom(pdf, 0, UNKNOWN, <<>>, fail_at)

\* the spans of the PDFs: two styled headings, a heading word in body
\* style, a bold line that names a section but does not start with it, and
\* body text
Spans ==
    {Span("Introduction", TRUE, 10), Span("METHODS", FALSE, 14),
     Span("Introduction", FALSE, 10), Span("see Methods", TRUE, 10),
     Span("the cell", FALSE, 10)}

Pages == {[spans |-> sp, text |-> TextPlain] : sp \in SeqsUpTo(Spans, MaxSpans)}

\* the paths extraction is called with: a file of the working directory and
\* files of other directories
PdfPaths == {<<"a.pdf">>, <<"processed_files", "a.pdf">>, <<"app", "data", "b.pdf">>}

Pdfs == {[path |-> pt, pages |-> pg] : pt \in PdfPaths, pg \in SeqsUpTo(Pages, MaxPages)}

\* pages in one PDF of the heading cases
MaxHeadingPages == 2

\* spans around the heading threshold: beside body text of size 10 a section
\* name of size 12 is at the threshold and one of size 13 above it; a span of
\* blanks has a size but no text
HeadingSpans ==
    {Span("the cell", FALSE, 10), Span("the cell", TRUE, 10), Span("the cell", FALSE, 13),
     Span("Results and discussion", FALSE, 12), Span("Results and discussion", FALSE, 13),
     Span("Introduction", FALSE, 10), Span("Introduction", TRUE, 10),
     Span("", FALSE, 30)}

HeadingPages == {[spans |-> sp, text |-> TextPlain] : sp \in SeqsUpTo(HeadingSpans, MaxSpans)}

HeadingPdfs ==
    {[path |-> <<"a.pdf">>, pages |-> pg] : pg \in SeqsUpTo(HeadingPages, MaxHeadingPages)}

\* extract_pages_from_pdf(pdf_path) on the PDF pdf
ExtractCall(pdf, fail_at) ==
    /\ Cardinality(ex_log) < MaxExtractCalls
    /\ ex_log' = ex_log \cup
          {[n |-> Cardinality(ex_log) + 1, pdf |-> pdf, fail_at |-> fail_at,
            out |-> ExtractPagesFromPdf(pdf, fail_at)]}
    /\ UNCHANGED <<storeVars, sigVars, queryVars, rerankVars, chunkVars, taskVars, setupVars>>

ExtractInit == ex_log = {}

----------------------------------------------------------------------------
(* chunk_documents: RecursiveCharacterTextSplitter with the settings of     *)
(* lines 44-56.  A page text carries, beside its length, the 0-based        *)
(* positions of its line breaks, its spaces and its full stops; every other *)
(* character is a letter.  A piece of a text is the substring text[from:to].*)

\* chunk_size and chunk_overlap of the splitter
CHUNK_SIZE == 1500
CHUNK_OVERLAP == 250

\* separators, in the order the splitter tries them: "NN" is the paragraph
\* break of two line breaks, "N" the line break, ". " the sentence end
SEPARATORS == <<"NN", "N", ". ", " ", "">>

\* the positions at which the text has the characters of the given kind
Field(text, kind) == IF kind \in DOMAIN text THEN text[kind] ELSE {}

\* text[from:to]
Sub(text, from, to) ==
    [f \in DOMAIN text |->
        IF f = "len" THEN to - from
        ELSE {p - from : p \in {q \in text[f] : from <= q /\ q < to}}]

Piece(from, to) == [from |-> from, to |-> to]

\* length_function=len
PLen(s) == s.to - s.from

\* len(separator)
Width(sep) == CASE sep = "" -> 0 [] sep \in {"NN", ". "} -> 2 [] OTHER -> 1

\* the positions at which the separator can be matched in the text
Starts(text, sep) ==
    CASE sep = "NN" -> {p \in Field(text, "newlines") : p + 1 \in Field(text, "newlines")}
      [] sep = "N" -> Field(text, "newlines")
      [] sep = ". " -> {p \in Field(text, "dots") : p + 1 \in Field(text, "spaces")}
      [] sep = " " -> Field(text, "spaces")
      [] OTHER -> {}

RECURSIVE MatchesFrom(_, _, _, _)
\* the matches of the separator in the piece s from position from on, left
\* to right and not overlapping, as re.split finds them
MatchesFrom(text, sep, s, from) ==
    LET c == {p \in Starts(text, sep) : from <= p /\ p + Width(sep) <= s.to}
    IN  IF c = {} THEN <<>>
        ELSE LET p == CHOOSE p \in c : \A q \in c : p <= q
             IN  <<p>> \o MatchesFrom(text, sep, s, p + Width(sep))

\* _split_text_with_regex with keep_separator=True: every match starts a
\* piece; list(text) for the separator ""; empty pieces are dropped
SplitTextWithRegex(text, sep, s) ==
    IF sep = "" THEN [k \in 1..PLen(s) |-> Piece(s.from + k - 1, s.from + k)]
    ELSE LET cuts == <<s.from>> \o MatchesFrom(text, sep, s, s.from) \o <<s.to>>
         IN  SelectSeq([k \in 1..(Len(cuts) - 1) |-> Piece(cuts[k], cuts[k + 1])],
                       LAMBDA q : PLen(q) > 0)

\* _join_docs with the separator "" and strip_whitespace=True: the pieces
\* joined and stripped of the white space at both ends, as a sequence of
\* none or one piece
JoinDocs(text, from, to) ==
    LET white == {p \in Field(text, "newlines") \cup Field(text, "spaces") :
                     from <= p /\ p < to}
        \* the white characters at the start and at the end
        lead == CHOOSE k \in 0..Cardinality(white) :
                    /\ \A j \in 0..(k - 1) : from + j \in white
                    /\ from + k \notin white
        trail == CHOOSE k \in 0..Cardinality(white) :
                    /\ \A j \in 1..k : to - j \in white
                    /\ to - k - 1 \notin white
    IN  IF lead >= to - from THEN <<>> ELSE <<Piece(from + lead, to - trail)>>

\* total for the window splits[a..b] of current_doc; the splits of one call
\* follow each other in the text and the separator "" adds nothing
Total(splits, a, b) == IF a > b THEN 0 ELSE splits[b].to - splits[a].from

\* a slip: the while loop cuts the window down to twice chunk_overlap
KeepOverlap_TwiceTheOverlap(splits, a, e) ==
    LET stop == {k \in a..e :
                    ~ \/ Total(splits, k, e - 1) > 2 * CHUNK_OVERLAP
                      \/ Total(splits, k, e - 1) + PLen(splits[e]) > CHUNK_SIZE
                            /\ Total(splits, k, e - 1) > 0}
    IN  CHOOSE k \in stop : \A j \in stop : k <= j

\* the while loop of _merge_splits before split e is appended to the window
\* splits[a..e-1]: splits are popped from the front while the window is
\* longer than chunk_overlap or leaves no room for split e; the result is
\* the start of the window kept.  The window only gets shorter, so the loop
\* stops at the first start for which its condition is false.
KeepOverlap(splits, a, e) ==
    LET stop == {k \in a..e :
                    ~ \/ Total(splits, k, e - 1) > CHUNK_OVERLAP
                      \/ Total(splits, k, e - 1) + PLen(splits[e]) > CHUNK_SIZE
                            /\ Total(splits, k, e - 1) > 0}
    IN  CHOOSE k \in stop : \A j \in stop : k <= j

RECURSIVE MergeFrom(_, _, _, _)
\* the loop of _merge_splits from split i on, with current_doc = splits[a..i-1]:
\* the splits up to the next one that does not fit are appended, the window
\* is emitted and cut down, and the loop goes on; the last window is emitted
\* at the end
MergeFrom(text, splits, a, i) ==
    LET n == Len(splits)
        full == {k \in i..n : /\ Total(splits, a, k - 1) + PLen(splits[k]) > CHUNK_SIZE
                              /\ a <= k - 1}
    IN  IF full = {}
        THEN IF a > n THEN <<>> ELSE JoinDocs(text, splits[a].from, splits[n].to)
        ELSE LET e == CHOOSE k \in full : \A j \in full : k <= j
             IN  JoinDocs(text, splits[a].from, splits[e - 1].to)
                    \o MergeFrom(text, splits, KeepOverlap(splits, a, e), e + 1)

\* _merge_splits
MergeSplits(text, splits) == MergeFrom(text, splits, 1, 1)

RECURSIVE SplitTextIn(_, _, _)
RECURSIVE SplitLoop(_, _, _, _)

\* the loop of _split_text over the splits from the i-th on: the splits
\* below chunk_size before the next longer one are merged, the longer one is
\* split with the finer separators, or kept whole when none is left
SplitLoop(text, splits, i, new_separators) ==
    IF i > Len(splits) THEN <<>>
    ELSE LET long == {k \in i..Len(splits) : ~ (PLen(splits[k]) < CHUNK_SIZE)}
             j == IF long = {} THEN Len(splits) + 1
                  ELSE CHOOSE k \in long : \A l \in long : k <= l
             good_splits == SubSeq(splits, i, j - 1)
             merged == IF good_splits = <<>> THEN <<>> ELSE MergeSplits(text, good_splits)
         IN  IF j > Len(splits) THEN merged
             ELSE merged
                    \o (IF new_separators = <<>> THEN <<splits[j]>>
                        ELSE SplitTextIn(text, splits[j], new_separators))
                    \o SplitLoop(text, splits, j + 1, new_separators)

\* _split_text on the piece s: the first separator that occurs in the piece,
\* or "", splits it
SplitTextIn(text, s, separators) ==
    LET found == {i \in 1..Len(separators) :
                     \/ separators[i] = ""
                     \/ MatchesFrom(text, separators[i], s, s.from) # <<>>}
        i == IF found = {} THEN Len(separators)
             ELSE CHOOSE k \in found : \A l \in found : k <= l
        separator == separators[i]
        new_separators == IF found = {} \/ separator = "" THEN <<>>
                          ELSE SubSeq(separators, i + 1, Len(separators))
    IN  SplitLoop(text, SplitTextWithRegex(text, separator, s), 1, new_separators)

\* split_text: the chunks of a text, as pieces of it
SplitText(text) == SplitTextIn(text, Piece(0, text.len), SEPARATORS)

RECURSIVE SplitDocumentsFrom_FirstMetadata(_, _)
\* a slip: every chunk gets the metadata of the first page
SplitDocumentsFrom_FirstMetadata(pages, i) ==
    IF i > Len(pages) THEN <<>>
    ELSE LET text == pages[i].page_content
             chunks == SplitText(text)
         IN  [k \in 1..Len(chunks) |->
                 [page_content |-> Sub(text, chunks[k].from, chunks[k].to),
                  metadata |-> pages[1].metadata]]
                \o SplitDocumentsFrom_FirstMetadata(pages, i + 1)

RECURSIVE SplitDocumentsFrom(_, _)
\* split_documents, create_documents: the chunks of every page in turn, each
\* with a copy of the metadata of its page
SplitDocumentsFrom(pages, i) ==
    IF i > Len(pages) THEN <<>>
    ELSE LET text == pages[i].page_content
             chunks == SplitText(text)
         IN  [k \in 1..Len(chunks) |->
                 [page_content |-> Sub(text, chunks[k].from, chunks[k].to),
                  metadata |-> pages[i].metadata]]
                \o SplitDocumentsFrom(pages, i + 1)

\* a slip: lines 37-39 left out, the splitter is built and run on no page
ChunkDocumentsRun_NoGuard(pages) ==
    [split_documents |-> <<pages>>, ret |-> SplitDocumentsFrom(pages, 1)]

\* the body of chunk_documents: the calls of text_splitter.split_documents
\* it makes and the list it returns
ChunkDocumentsRun(pages) ==
    IF pages = <<>> THEN [split_documents |-> <<>>, ret |-> <<>>]
    ELSE [split_documents |-> <<pages>>, ret |-> SplitDocumentsFrom(pages, 1)]

\* chunk_documents
ChunkDocuments(pages) == ChunkDocumentsRun(pages).ret

\* pages in one chunk_documents call
MaxChunkPages == 2
\* chunk_documents calls in one behaviour
MaxChunkCalls == 1

\* the page texts: no text, blanks only, one token of 1500 and one of 1600
\* letters, three letters and a token that is 1500 characters with its
\* space, two tokens of 1600 letters, words of 199 letters, and three
\* paragraphs of which the second is two sentences of several words
ChEmpty == [len |-> 0, marks |-> {}]
ChBlank == [len |-> 3, marks |-> {}, spaces |-> {0, 2}, newlines |-> {1}]
ChExact == [len |-> 1500, marks |-> {}]
ChToken == [len |-> 1600, marks |-> {}]
ChLongWord == [len |-> 1503, marks |-> {}, spaces |-> {3}]
ChTwoTokens == [len |-> 3201, marks |-> {}, spaces |-> {1600}]
ChWords == [len |-> 2999, marks |-> {}, spaces |-> {200 * k - 1 : k \in 1..14}]
ChParas == [len |-> 3000, marks |-> {}, newlines |-> {800, 801, 2500, 2501},
            dots |-> {1599}, spaces |-> {1000, 1600, 2200}]

ChunkTexts ==
    {TextPlain, ChEmpty, ChBlank, ChExact, ChToken, ChLongWord, ChTwoTokens, ChWords,
     ChParas}

ChunkPages ==
    {Doc("a.pdf", 1, "Introduction", t) : t \in ChunkTexts}
        \cup {Doc("a.pdf", 2, "Methods", t) : t \in ChunkTexts}

\* chunk_documents(pages); cuts keeps, for every page, the pieces the
\* splitter cuts its text into
ChunkCall(pages) ==
    /\ Cardinality(ck_log) < MaxChunkCalls
    /\ ck_log' = ck_log \cup
          {[n |-> Cardinality(ck_log) + 1, pages |-> pages,
            split_documents |-> ChunkDocumentsRun(pages).split_documents,
            cuts |-> [i \in 1..Len(pages) |-> SplitText(pages[i].page_content)],
            out |-> ChunkDocuments(pages)]}
    /\ UNCHANGED <<storeVars, sigVars, queryVars, rerankVars, extractVars, taskVars,
                   setupVars>>

ChunkInit == ck_log = {}

----------------------------------------------------------------------------
(* process_pdf_task: one document, ingested by the worker "w1" under the    *)
(* retry policy of the task decorator.                                      *)

\* max_retries of the task decorator
MAX_RETRIES == 3
\* the shortest sample the language check accepts
MIN_SAMPLE_LEN == 100

Text49 == [len |-> 49, marks |-> {}]
Text50 == [len |-> 50, marks |-> {}]

PageOf(spans, text) == [spans |-> spans, text |-> text]

\* a page headed 'Introduction' and a page headed 'METHODS', each with body
\* text
IntroPage(text) ==
    PageOf(<<Span("Introduction", TRUE, 10), Span("the cell", FALSE, 10)>>, text)
MethodsPage(text) ==
    PageOf(<<Span("METHODS", TRUE, 10), Span("the cell", FALSE, 10)>>, text)

\* a document: its file name, its pages and the language langdetect finds
\* in its text, "" when it finds none
Pdf(pages, lang) == [name |-> "a.pdf", pages |-> pages, lang |-> lang]

\* two full pages in English: its chunks are D1 and D2
PdfGood == Pdf(<<IntroPage(TextPlain), MethodsPage(TextPlain)>>, "en")
\* 49 and 50 characters on its two pages
PdfShort == Pdf(<<IntroPage(Text49), MethodsPage(Text50)>>, "en")
\* one page of 50 characters
PdfTiny == Pdf(<<IntroPage(Text50)>>, "tr")
PdfEmpty == Pdf(<<>>, "")
PdfGerman == Pdf(<<IntroPage(TextPlain), MethodsPage(TextPlain)>>, "de")
\* two full pages in which no language is found
PdfDigits == Pdf(<<IntroPage(TextPlain), MethodsPage(TextPlain)>>, "")

TaskPdfs == {PdfGood, PdfShort, PdfTiny, PdfEmpty, PdfGerman, PdfDigits}

\* len(" ".join([p.page_content for p in pages[:2]]))
SampleLen(pages) ==
    CASE Len(pages) = 0 -> 0
      [] Len(pages) = 1 -> pages[1].page_content.len
      [] OTHER -> pages[1].page_content.len + 1 + pages[2].page_content.len

\* a slip: the language of the sample is not looked at
QualityFails_NoLanguage(pages, lang) ==
    \/ pages = <<>>
    \/ SampleLen(pages) < MIN_SAMPLE_LEN

\* lines 107-131: whether the quality check raises ValueError
QualityFails(pages, lang) ==
    \/ pages = <<>>
    \/ SampleLen(pages) < MIN_SAMPLE_LEN
    \/ lang = ""
    \/ lang \notin {"en", "tr"}

\* pending_filepath and the path of line 65, as the directory and the file name
PendingPath(pdf) == <<"pending_files", pdf.name>>
ProcessedPath(pdf) == <<"processed_files", pdf.name>>

\* the copy of the document that OCR writes to PROCESSED_DIR
Processed(pdf) == [path |-> ProcessedPath(pdf), pages |-> pdf.pages]

\* a call of a stage: the function, its arguments and what came back, the
\* value returned or the error raised
StageCall(fn, args, back) == [fn |-> fn, args |-> args, back |-> back]
Returned(value) == [returned |-> value]
Raised(error) == [raised |-> error]

NoFlags == [fault |-> "none", extract_failed |-> FALSE, chunk_called |-> FALSE,
            add_called |-> FALSE, checked |-> {}]

\* the record of an attempt that ended
Run(fault, outcome) ==
    [fault |-> fault, outcome |-> outcome, step |-> t_step,
     input_present |-> t_pending = "pending"]

\* app.py lines 96-103: the upload is saved to PENDING_DIR and the task is
\* queued
Submit(pdf) ==
    /\ t_pc = "none"
    /\ t_pc' = "ocr"
    /\ t_doc' = {pdf}
    /\ t_pending' = "pending"
    /\ t_step' = "OCR"
    /\ t_calls' = <<>>
    /\ t_ret' = {}
    /\ UNCHANGED <<t_retries, t_processed, t_pages, t_chunks, t_status, t_runs, t_flags>>
    /\ UNCHANGED <<storeVars, besideTask>>

\* a slip: lines 163-164 left out, the copy in PROCESSED_DIR stays
Raise_KeepsCopy(fault) ==
    /\ t_pending' = IF t_pending = "pending" THEN "failed" ELSE t_pending
    /\ t_processed' = t_processed
    /\ t_status' = IF t_retries < MAX_RETRIES THEN "raised" ELSE "FAILURE"
    /\ t_pc' = IF t_retries < MAX_RETRIES THEN "retry" ELSE "end"
    /\ t_runs' = Append(t_runs, Run(fault, "raised"))
    /\ t_pages' = <<>>
    /\ t_chunks' = <<>>
    /\ t_ret' = {}
    /\ UNCHANGED <<t_doc, t_retries, t_step>>

\* a slip: lines 160-161 left out, the input stays in PENDING_DIR
Raise_LeavesInput(fault) ==
    /\ t_pending' = t_pending
    /\ t_processed' = IF t_step # "OCR" THEN FALSE ELSE t_processed
    /\ t_status' = IF t_retries < MAX_RETRIES THEN "raised" ELSE "FAILURE"
    /\ t_pc' = IF t_retries < MAX_RETRIES THEN "retry" ELSE "end"
    /\ t_runs' = Append(t_runs, Run(fault, "raised"))
    /\ t_pages' = <<>>
    /\ t_chunks' = <<>>
    /\ t_ret' = {}
    /\ UNCHANGED <<t_doc, t_retries, t_step>>

\* lines 153-167 and the autoretry of the decorator: the except block moves
\* the input to FAILED_DIR if it is still in PENDING_DIR, removes the copy
\* in PROCESSED_DIR unless the step is OCR, and raises; Celery queues a
\* retry while retries are left and fails the task otherwise
Raise(fault) ==
    /\ t_pending' = IF t_pending = "pending" THEN "failed" ELSE t_pending
    /\ t_processed' = IF t_step # "OCR" THEN FALSE ELSE t_processed
    /\ t_status' = IF t_retries < MAX_RETRIES THEN "raised" ELSE "FAILURE"
    /\ t_pc' = IF t_retries < MAX_RETRIES THEN "retry" ELSE "end"
    /\ t_runs' = Append(t_runs, Run(fault, "raised"))
    /\ t_pages' = <<>>
    /\ t_chunks' = <<>>
    /\ t_ret' = {}
    /\ UNCHANGED <<t_doc, t_retries, t_step>>

\* Celery runs the task again with the same pending_filepath
RetryStart ==
    /\ t_pc = "retry"
    /\ t_pc' = "ocr"
    /\ t_retries' = t_retries + 1
    /\ t_step' = "OCR"
    /\ t_flags' = [t_flags EXCEPT !.fault = "none"]
    /\ t_calls' = <<>>
    /\ UNCHANGED <<t_doc, t_pending, t_processed, t_pages, t_chunks, t_status, t_runs, t_ret>>
    /\ UNCHANGED <<storeVars, besideTask>>

\* lines 77-84 and 94-96: OCR writes the copy in PROCESSED_DIR, or OCR
\* fails for another reason than the two below and the input is copied there
OcrOk ==
    /\ t_pc = "ocr" /\ t_pending = "pending"
    /\ t_processed' = TRUE
    /\ t_pc' = "extract"
    /\ t_step' = "EXTRACT"
    /\ \E pdf \in t_doc :
          t_calls' = Append(t_calls, StageCall("ocrmypdf.ocr",
                                               <<PendingPath(pdf), ProcessedPath(pdf)>>,
                                               Returned(ProcessedPath(pdf))))
    /\ UNCHANGED <<t_doc, t_retries, t_pending, t_pages, t_chunks, t_status, t_runs, t_flags,
                   t_ret>>
    /\ UNCHANGED <<storeVars, besideTask>>

\* the errors of ocrmypdf that end the task without a retry, and the reason
\* the task returns for each (lines 85-93)
OcrRejections == {"EncryptedPdfError", "InputFileError"}
Reason(error) == IF error = "EncryptedPdfError" THEN "encrypted" ELSE "corrupted_pdf"

\* a slip: the handler moves the input and raises the error again
OcrRejected_Reraises(error) ==
    /\ t_pc = "ocr" /\ t_pending = "pending"
    /\ \E pdf \in t_doc :
          t_calls' = Append(t_calls, StageCall("ocrmypdf.ocr",
                                               <<PendingPath(pdf), ProcessedPath(pdf)>>,
                                               Raised(error)))
    /\ Raise("ocr")
    /\ UNCHANGED t_flags
    /\ UNCHANGED <<storeVars, besideTask>>

\* lines 85-93: ocrmypdf finds the PDF encrypted or invalid; the input is
\* moved to FAILED_DIR and the task returns status 'failed' with the reason
OcrRejected(error) ==
    /\ t_pc = "ocr" /\ t_pending = "pending"
    /\ t_pending' = "failed"
    /\ t_status' = "failed"
    /\ t_pc' = "end"
    /\ t_runs' = Append(t_runs, Run("ocr", "failed"))
    /\ \E pdf \in t_doc :
          t_calls' = Append(t_calls, StageCall("ocrmypdf.ocr",
                                               <<PendingPath(pdf), ProcessedPath(pdf)>>,
                                               Raised(error)))
    /\ t_ret' = {[status |-> "failed", reason |-> Reason(error)]}
    /\ UNCHANGED <<t_doc, t_retries, t_processed, t_step, t_pages, t_chunks, t_flags>>
    /\ UNCHANGED <<storeVars, besideTask>>

\* the input is not in PENDING_DIR: OCR raises, and the shutil.move of line
\* 92 or the shutil.copy of line 96 raises in turn
OcrMissing ==
    /\ t_pc = "ocr" /\ t_pending # "pending"
    /\ Raise(t_flags.fault)
    /\ \E pdf \in t_doc :
          t_calls' = Append(t_calls, StageCall("ocrmypdf.ocr",
                                               <<PendingPath(pdf), ProcessedPath(pdf)>>,
                                               Raised("missing")))
    /\ UNCHANGED t_flags
    /\ UNCHANGED <<storeVars, besideTask>>

\* line 101: extract_pages_from_pdf returns the pages it processed, all of
\* them or those before the page PyMuPDF raised on
ExtractStep(fail_at) ==
    /\ t_pc = "extract"
    /\ \E pdf \in t_doc :
          /\ fail_at <= Len(pdf.pages)
          /\ t_pages' = ExtractPagesFromPdf(Processed(pdf), fail_at)
          /\ t_calls' = Append(t_calls,
                               StageCall("extract_pages_from_pdf", <<ProcessedPath(pdf)>>,
                                         Returned(ExtractPagesFromPdf(Processed(pdf),
                                                                      fail_at))))
    /\ t_flags' = [t_flags EXCEPT
                      !.extract_failed = @ \/ fail_at > 0,
                      !.fault = IF fail_at > 0 THEN "extract" ELSE @]
    /\ t_pc' = "quality"
    /\ t_step' = "QUALITY"
    /\ UNCHANGED <<t_doc, t_retries, t_pending, t_processed, t_chunks, t_status, t_runs,
                   t_ret>>
    /\ UNCHANGED <<storeVars, besideTask>>

\* line 85 of document_processor.py: fitz.open raises, outside the try
ExtractRaise ==
    /\ t_pc = "extract"
    /\ t_flags' = [t_flags EXCEPT !.fault = "open"]
    /\ \E pdf \in t_doc :
          t_calls' = Append(t_calls, StageCall("extract_pages_from_pdf",
                                               <<ProcessedPath(pdf)>>, Raised("open")))
    /\ Raise("open")
    /\ UNCHANGED <<storeVars, besideTask>>

\* lines 107-131 raise ValueError
QualityFail ==
    /\ t_pc = "quality"
    /\ \E pdf \in t_doc : QualityFails(t_pages, pdf.lang)
    /\ t_flags' = [t_flags EXCEPT !.checked = {t_pages}]
    /\ Raise(t_flags.fault)
    /\ UNCHANGED t_calls
    /\ UNCHANGED <<storeVars, besideTask>>

\* lines 107-131 let the document pass
QualityPass ==
    /\ t_pc = "quality"
    /\ \E pdf \in t_doc : ~QualityFails(t_pages, pdf.lang)
    /\ t_flags' = [t_flags EXCEPT !.checked = {t_pages}]
    /\ t_pc' = "chunk"
    /\ t_step' = "CHUNK"
    /\ UNCHANGED <<t_doc, t_retries, t_pending, t_processed, t_pages, t_chunks, t_status,
                   t_runs, t_calls, t_ret>>
    /\ UNCHANGED <<storeVars, besideTask>>

\* lines 134-138: chunk_documents; no chunk raises ValueError
ChunkStep ==
    /\ t_pc = "chunk"
    /\ t_flags' = [t_flags EXCEPT !.chunk_called = TRUE]
    /\ t_calls' = Append(t_calls, StageCall("chunk_documents", <<t_pages>>,
                                            Returned(ChunkDocuments(t_pages))))
    /\ IF ChunkDocuments(t_pages) = <<>>
       THEN Raise(t_flags.fault)
       ELSE /\ t_chunks' = ChunkDocuments(t_pages)
            /\ t_pc' = "store"
            /\ t_step' = "STORE"
            /\ UNCHANGED <<t_doc, t_retries, t_pending, t_processed, t_pages, t_status,
                           t_runs, t_ret>>
    /\ UNCHANGED <<storeVars, besideTask>>

\* line 143: add_documents_to_store(chunks) is entered
AddDocuments ==
    /\ t_pc = "store"
    /\ Call("w1", t_chunks)
    /\ t_flags' = [t_flags EXCEPT !.add_called = TRUE]
    /\ t_pc' = "adding"
    /\ t_calls' = Append(t_calls, StageCall("add_documents_to_store", <<t_chunks>>,
                                            [running |-> TRUE]))
    /\ UNCHANGED <<t_doc, t_retries, t_pending, t_processed, t_step, t_pages, t_chunks,
                   t_status, t_runs, t_ret>>

\* line 143, then line 135 of vectorstore_manager.py: get_vectorstore
\* raises, outside the try of add_documents_to_store
VectorstoreFail ==
    /\ t_pc = "store"
    /\ t_flags' = [t_flags EXCEPT !.add_called = TRUE, !.fault = "vectorstore"]
    /\ t_calls' = Append(t_calls, StageCall("add_documents_to_store", <<t_chunks>>,
                                            Raised("vectorstore")))
    /\ Raise("vectorstore")
    /\ UNCHANGED <<storeVars, besideTask>>

\* a slip: the task reports the number of chunks it handed over, not the
\* number add_documents_to_store says it added
Cleanup_CountsChunks ==
    /\ t_pc = "adding"
    /\ EndCall("w1")
    /\ t_pending' = "removed"
    /\ t_status' = "success"
    /\ t_pc' = "end"
    /\ t_step' = "CLEANUP"
    /\ t_runs' = Append(t_runs, [Run(t_flags.fault, "success") EXCEPT !.step = "CLEANUP"])
    /\ t_calls' = [t_calls EXCEPT ![Len(t_calls)].back = Returned(ret["w1"])]
    /\ \E pdf \in t_doc :
          t_ret' = {[status |-> "success", file |-> Basename(PendingPath(pdf)),
                     chunks_added |-> Len(t_chunks)]}
    /\ UNCHANGED <<t_doc, t_retries, t_processed, t_pages, t_chunks, t_flags>>

\* lines 143-151: add_documents_to_store has returned; the input is removed
\* from PENDING_DIR and the task returns status 'success'
Cleanup ==
    /\ t_pc = "adding"
    /\ EndCall("w1")
    /\ t_pending' = "removed"
    /\ t_status' = "success"
    /\ t_pc' = "end"
    /\ t_step' = "CLEANUP"
    /\ t_runs' = Append(t_runs, [Run(t_flags.fault, "success") EXCEPT !.step = "CLEANUP"])
    /\ t_calls' = [t_calls EXCEPT ![Len(t_calls)].back = Returned(ret["w1"])]
    /\ \E pdf \in t_doc :
          t_ret' = {[status |-> "success", file |-> Basename(PendingPath(pdf)),
                     chunks_added |-> ret["w1"]]}
    /\ UNCHANGED <<t_doc, t_retries, t_processed, t_pages, t_chunks, t_flags>>

TaskInit ==
    /\ t_pc = "none"
    /\ t_doc = {}
    /\ t_retries = 0
    /\ t_pending = "none"
    /\ t_processed = FALSE
    /\ t_step = "OCR"
    /\ t_pages = <<>>
    /\ t_chunks = <<>>
    /\ t_status = "none"
    /\ t_runs = <<>>
    /\ t_flags = NoFlags
    /\ t_calls = <<>>
    /\ t_ret = {}

----------------------------------------------------------------------------
(* setup_rag_chain and the lazily initialized components it builds on.      *)

\* setup_rag_chain calls in one behaviour
MaxSetupCalls == 3

\* the components in the order lines 135-138 initialize them
Components == <<"llm", "vectorstore", "reranker">>
ComponentSet == {Components[i] : i \in 1..Len(Components)}

\* get_llm, get_vectorstore, _get_reranker_model: the component is there
\* when its global is set or it can be initialized now
Available(c) == c \in s_cache \/ c \in s_up

\* the position of the first component that raises, 0 when none does
FirstFailure ==
    LET failing == {i \in 1..Len(Components) : ~Available(Components[i])}
    IN  IF failing = {} THEN 0 ELSE CHOOSE i \in failing : \A j \in failing : i <= j

NoSetup == [value |-> "none", failed |-> "none"]

\* setup_rag_chain(): the cached chain, a new chain, or None when lines
\* 230-232 catch the exception of a component
SetupRagChain ==
    /\ s_calls < MaxSetupCalls
    /\ s_calls' = s_calls + 1
    /\ IF s_chain
       THEN /\ s_ret' = [value |-> "chain", failed |-> "none"]
            /\ UNCHANGED <<s_cache, s_chain>>
       ELSE IF FirstFailure = 0
       THEN /\ s_cache' = ComponentSet
            /\ s_chain' = TRUE
            /\ s_ret' = [value |-> "chain", failed |-> "none"]
       ELSE /\ s_cache' = s_cache \cup {Components[i] : i \in 1..(FirstFailure - 1)}
            /\ s_chain' = FALSE
            /\ s_ret' = [value |-> "None", failed |-> Components[FirstFailure]]
    /\ UNCHANGED s_up
    /\ UNCHANGED <<storeVars, sigVars, queryVars, rerankVars, extractVars, chunkVars, taskVars>>

\* the model files, the API or the database directory of a component
\* become unavailable
Outage(c) ==
    /\ c \in s_up
    /\ s_up' = s_up \ {c}
    /\ UNCHANGED <<s_cache, s_chain, s_ret, s_calls>>
    /\ UNCHANGED <<storeVars, sigVars, queryVars, rerankVars, extractVars, chunkVars, taskVars>>

\* ... and available again
Recover(c) ==
    /\ c \notin s_up
    /\ s_up' = s_up \cup {c}
    /\ UNCHANGED <<s_cache, s_chain, s_ret, s_calls>>
    /\ UNCHANGED <<storeVars, sigVars, queryVars, rerankVars, extractVars, chunkVars, taskVars>>

SetupInit ==
    /\ s_up = ComponentSet
    /\ s_cache = {}
    /\ s_chain = FALSE
    /\ s_ret = NoSetup
    /\ s_calls = 0

----------------------------------------------------------------------------
(* The specifications.                                                      *)

Init ==
    /\ StoreInit /\ SigInit /\ QueryInit
    /\ RerankInit /\ ExtractInit /\ ChunkInit /\ TaskInit /\ SetupInit

\* a worker process starts a task
StartCall(p, b) == ncalls < MaxCalls /\ Call(p, b) /\ UNCHANGED taskVars

StoreStep(p) ==
    \/ Check(p)
    \/ InsertOk(p)
    \/ InsertFail(p)
    \/ SaveOpen(p)
    \/ SaveOpenFail(p)
    \/ SaveWrite(p)
    \/ SaveWriteFail(p)
    \/ TaskEnd(p)
    \/ Restart(p)

\* the worker processes ingesting documents
Next ==
    \E p \in Procs :
        \/ \E b \in Batches : StartCall(p, b)
        \/ StoreStep(p)

Spec == Init /\ [][Next]_vars

\* one worker process ingesting documents over one lifetime
OneWorkerNext ==
    \/ \E b \in Batches : StartCall("w1", b)
    \/ Check("w1")
    \/ InsertOk("w1")
    \/ InsertFail("w1")
    \/ SaveOpen("w1")
    \/ SaveOpenFail("w1")
    \/ SaveWrite("w1")
    \/ SaveWriteFail("w1")
    \/ TaskEnd("w1")

SpecOneWorker == Init /\ [][OneWorkerNext]_vars

\* calls in one behaviour of the workers that take their tasks in turn
MaxTurnCalls == 3

\* a worker process starts a task, on a document of at most one chunk, while
\* no other task is running
TurnStart(p, b) ==
    /\ ncalls < MaxTurnCalls
    /\ Len(b) <= 1
    /\ \A q \in Procs : pc[q] = "idle"
    /\ Call(p, b)
    /\ UNCHANGED taskVars

\* the worker processes ingesting documents one task at a time
TurnsNext ==
    \E p \in Procs :
        \/ \E b \in Batches : TurnStart(p, b)
        \/ StoreStep(p)

SpecTurns == Init /\ [][TurnsNext]_vars

\* processes computing signatures
SigNext == \E p \in Procs : \E d \in SigDocs : SignatureCall(p, d)

SpecSig == Init /\ [][SigNext]_vars

\* ingestion tasks started while queries run
MaxQueryIngest == 1

\* one worker ingests single chunks while the pipeline answers queries
QueryIngest(b) ==
    ncalls < MaxQueryIngest /\ Len(b) = 1 /\ Call("w1", b) /\ UNCHANGED taskVars

QueryNext ==
    \/ \E input \in QueryInputs : Invoke(input)
    \/ \E k \in KeySet :
          \/ Retrieve(k)
          \/ RetrieveFail(k)
          \/ RerankStep(k)
          \/ RerankFail(k)
          \/ FormatStep(k)
          \/ FormatFail(k)
          \/ GenerateStep(k)
          \/ GenerateFail(k)
    \/ Join
    \/ \E b \in Batches : QueryIngest(b)
    \/ StoreStep("w1")

SpecQuery == Init /\ [][QueryNext]_vars

\* rerankers built and called
RerankNext ==
    \/ \E m \in RerankModels : \E top_n \in 0..MaxTopN : \E batch_size \in 1..MaxBatchSize :
          NewReranker(m, top_n, batch_size)
    \/ \E q \in Questions : \E docs \in CandidateLists : RerankCall(q, docs)

SpecRerank == Init /\ [][RerankNext]_vars

\* PDFs extracted
ExtractNext ==
    /\ Cardinality(ex_log) < MaxExtractCalls
    /\ \E pdf \in Pdfs : \E fail_at \in 0..Len(pdf.pages) : ExtractCall(pdf, fail_at)

SpecExtract == Init /\ [][ExtractNext]_vars

\* page lists chunked
\* extract_pages_from_pdf on the PDFs of the heading cases
HeadingsNext ==
    /\ Cardinality(ex_log) < MaxExtractCalls
    /\ \E pdf \in HeadingPdfs : ExtractCall(pdf, 0)

SpecHeadings == Init /\ [][HeadingsNext]_vars

ChunkNext ==
    /\ Cardinality(ck_log) < MaxChunkCalls
    /\ \E pages \in SeqsUpTo(ChunkPages, MaxChunkPages) : ChunkCall(pages)

SpecChunk == Init /\ [][ChunkNext]_vars

\* pages of at most 300 characters
ShortPages == {d \in ChunkPages : d.page_content.len <= 300}

\* the two components called one after the other in any order: no page or
\* one short page is chunked, one reranker is built around the cross-encoder
\* and called once
ComponentsNext ==
    \/ /\ Cardinality(ck_log) < MaxChunkCalls
       /\ \E pages \in SeqsUpTo(ShortPages, 1) : ChunkCall(pages)
    \/ \E top_n \in 0..MaxTopN : \E batch_size \in 1..MaxBatchSize :
          NewReranker(CrossEncoder, top_n, batch_size)
    \/ /\ rr_log = {}
       /\ \E q \in Questions : \E docs \in CandidateLists : RerankCall(q, docs)

SpecComponents == Init /\ [][ComponentsNext]_vars

\* one document goes through process_pdf_task and its retries
TaskNext ==
    \/ \E pdf \in TaskPdfs : Submit(pdf)
    \/ OcrOk
    \/ \E error \in OcrRejections : OcrRejected(error)
    \/ OcrMissing
    \/ \E fail_at \in 0..MaxPages : ExtractStep(fail_at)
    \/ ExtractRaise
    \/ QualityFail
    \/ QualityPass
    \/ ChunkStep
    \/ AddDocuments
    \/ VectorstoreFail
    \/ Check("w1")
    \/ InsertOk("w1")
    \/ InsertFail("w1")
    \/ SaveOpen("w1")
    \/ SaveOpenFail("w1")
    \/ SaveWrite("w1")
    \/ SaveWriteFail("w1")
    \/ Cleanup
    \/ RetryStart

SpecTask == Init /\ [][TaskNext]_vars

\* the pipeline is set up while its components come and go
SetupNext ==
    \/ SetupRagChain
    \/ \E c \in ComponentSet : Outage(c) \/ Recover(c)

SpecSetup == Init /\ [][SetupNext]_vars

----------------------------------------------------------------------------
(* Properties of the write path, checked under Spec.                       *)

\* the store entries written by the call with id c
InsertedBy(c) == {e \in store : e.call = c}

\* p has finished a call, in the same process lifetime, before the running one
HasPrev(p) == prev[p].status # "none"

\* C1: when a process calls add_documents_to_store a second time with the
\* batch of its previous call, and that previous call did not fail at the
\* store insert, the second call inserts nothing and returns 0: the store
\* is as large as after the first call alone.
C1_SecondCallInsertsNothing ==
    \A p \in Procs :
        (pc[p] = "return" /\ HasPrev(p) /\ prev[p].batch = batch[p] /\ ~prev[p].failed)
            => /\ ret[p] = 0
               /\ ~cur[p].inserted
               /\ InsertedBy(cur[p].id) = {}

C1_Witness ==
    \E p \in Procs :
        /\ pc[p] = "return" /\ HasPrev(p) /\ prev[p].batch = batch[p]
        /\ prev[p].inserted /\ prev[p].ret = Len(batch[p]) /\ Len(batch[p]) = MaxBatch
        /\ ret[p] = 0

\* C2: two calls that were in progress at the same time never both insert a
\* chunk with the same signature.
C2_ConcurrentCallsSerialized ==
    \A e1 \in store : \A e2 \in store :
        (e1.call # e2.call /\ {e1.call, e2.call} \in concurrent)
            => GetDocumentSignature(e1.doc) # GetDocumentSignature(e2.doc)

\* C3: a call whose store insert raised returns 0 with the index in memory
\* equal to the index it checked the batch against, holding no signature of
\* the chunks it tried to insert; and no step of the call up to and including
\* the failing insert writes the index file.
C3_FailedInsertLeavesIndex ==
    /\ [](\A p \in Procs :
            (pc[p] = "return" /\ cur[p].failed)
                => /\ ret[p] = 0
                   /\ hash_index[p].idx = cur[p].idx0
                   /\ \A i \in 1..Len(docs_to_add[p]) :
                          hashes_to_add[p][i] \notin IndexKeys(hash_index[p].idx))
    /\ [][\A p \in Procs :
            (pc'[p] # pc[p] /\ pc[p] \in {"idle", "check", "insert"}) => file' = file]_vars
    /\ [][\A p \in Procs :
            (pc[p] = "insert" /\ pc'[p] = "return")
                => cur'[p].failed /\ hash_index'[p] = hash_index[p]]_vars

C3_Witness ==
    \E p \in Procs :
        /\ pc[p] = "return" /\ cur[p].failed
        /\ Len(docs_to_add[p]) = MaxBatch
        /\ file.valid /\ file.idx # {}

\* C4: a task whose store insert failed does not end with status 'success'.
C4_FailedInsertIsNotSuccess ==
    \A p \in Procs : prev[p].failed => prev[p].status # "success"

\* C5 as stated: a call that follows a call of the same process that failed
\* at the store insert, with the same batch and the store available, inserts
\* every chunk of the batch exactly once and returns the size of the batch.
C5_RetryInsertsWholeBatch ==
    \A p \in Procs :
        (pc[p] = "return" /\ HasPrev(p) /\ prev[p].failed /\ prev[p].batch = batch[p]
            /\ ~cur[p].failed)
            => /\ ret[p] = Len(batch[p])
               /\ InsertedBy(cur[p].id) = StoreEntries(batch[p], cur[p].id)

\* C5 as amended: such a call inserts exactly the chunks the failed call tried
\* to insert, the chunks of the batch whose signature was not in the index,
\* each once, and returns their number.
C5_RetryInsertsWhatFailed ==
    \A p \in Procs :
        (pc[p] = "return" /\ HasPrev(p) /\ prev[p].failed /\ prev[p].batch = batch[p]
            /\ ~cur[p].failed)
            => /\ prev[p].to_add = SelectNew(batch[p], cur[p].idx0)
               /\ prev[p].to_add # <<>>
               /\ ret[p] = Len(prev[p].to_add)
               /\ InsertedBy(cur[p].id) = StoreEntries(prev[p].to_add, cur[p].id)

C5_Witness ==
    \E p \in Procs :
        /\ pc[p] = "return" /\ HasPrev(p) /\ prev[p].failed /\ prev[p].batch = batch[p]
        /\ cur[p].inserted
        /\ ret[p] = 1 /\ Len(batch[p]) = 2

\* C6: when a call that inserted chunks returns, the index file is a complete
\* copy of the index in memory and holds the signature of every chunk the call
\* inserted.
C6_FileEqualsMemoryAfterInsert ==
    \A p \in Procs :
        (pc[p] = "return" /\ cur[p].inserted)
            => /\ file.exists /\ file.valid
               /\ file.idx = hash_index[p].idx
               /\ \A e \in InsertedBy(cur[p].id) :
                      GetDocumentSignature(e.doc) \in IndexKeys(file.idx)

\* C7: a process that reads the index file while another process is saving it
\* gets the complete index of before the save or the complete index being
\* saved.
C7_LoadSeesOldOrNew ==
    \A p \in Procs :
        (cur[p].load.from_file /\ cur[p].load.saving)
            => cur[p].load.got \in cur[p].load.whole

\* d0 and d have the same source, page and first 200 characters and differ
\* afterwards
Twin(d0, d) ==
    /\ d0.metadata.source = d.metadata.source
    /\ d0.metadata.page = d.metadata.page
    /\ Slice(d0.page_content, 200) = Slice(d.page_content, 200)
    /\ d0.page_content # d.page_content

\* the positions of the batch of p that hold the twin of a chunk an earlier
\* call inserted and whose signature is in the index the call of p checks
\* its batch against
TwinsOfCommitted(p) ==
    {i \in 1..Len(batch[p]) :
        \E e \in store :
            /\ e.call # cur[p].id
            /\ Twin(e.doc, batch[p][i])
            /\ GetDocumentSignature(e.doc) \in IndexKeys(cur[p].idx0)}

\* C31: when a call checks its batch against an index that holds the
\* signature of a stored chunk, a chunk of the batch with the same source,
\* page and first 200 characters and another text after them is not passed
\* to the store by the call, and the count the call returns does not
\* include it.
C31_TwinIsDuplicate ==
    \A p \in Procs :
        pc[p] = "return"
            => /\ \A i \in TwinsOfCommitted(p) :
                      /\ \A j \in 1..Len(docs_to_add[p]) : docs_to_add[p][j] # batch[p][i]
                      /\ \A e \in InsertedBy(cur[p].id) : e.doc # batch[p][i]
               /\ ret[p] <= Len(batch[p]) - Cardinality(TwinsOfCommitted(p))

\* D1 is stored and indexed; a later call with the batch D1x, D2 inserts D2
\* only and returns 1
C31_Witness ==
    \E p \in Procs :
        /\ pc[p] = "return"
        /\ batch[p] = <<D1x, D2>>
        /\ TwinsOfCommitted(p) = {1}
        /\ \E e \in store : e.doc = D1 /\ e.call # cur[p].id
        /\ {e.doc : e \in InsertedBy(cur[p].id)} = {D2}
        /\ ret[p] = 1

\* C35: while a process is between two add_documents_to_store calls, every
\* entry of its index is the signature, with the source, of a chunk the
\* store holds.
C35_IndexWithinStore ==
    \A p \in Procs :
        pc[p] = "idle" =>
            \A x \in hash_index[p].idx :
                \E e \in store :
                    /\ GetDocumentSignature(e.doc) = x.sig
                    /\ e.doc.metadata.source = x.source

\* a call whose insert failed has returned: the index holds what the store
\* held before and not the chunk the call tried to insert
C35_Witness ==
    \E p \in Procs :
        /\ pc[p] = "idle"
        /\ prev[p].failed /\ prev[p].to_add # <<>>
        /\ hash_index[p].idx # {}
        /\ GetDocumentSignature(prev[p].to_add[1]) \notin IndexKeys(hash_index[p].idx)
        /\ \A e \in store : e.doc # prev[p].to_add[1]

\* C37: when both worker processes have finished a call that inserted
\* chunks and saved the index, the index file holds the signatures of the
\* chunks of both calls.
C37_SavesKeepEachOther ==
    \A p \in Procs : \A q \in Procs \ {p} :
        (pc[p] = "idle" /\ pc[q] = "idle" /\ prev[p].saved /\ prev[q].saved)
            => /\ file.exists /\ file.valid
               /\ \A i \in 1..Len(prev[p].to_add) :
                      GetDocumentSignature(prev[p].to_add[i]) \in IndexKeys(file.idx)

\* the calls whose load of the index met a file that exists and cannot be
\* parsed, once the load is done
LoadedUnparsable == {p \in Procs : pc[p] \notin {"idle", "check"} /\ cur[p].load.unparsable}

\* the load went on with an empty index and every chunk of the batch is new
EveryChunkNew(p) ==
    /\ hash_index[p].loaded
    /\ cur[p].idx0 = {}
    /\ cur[p].to_add = batch[p]
    /\ pc[p] = "insert" => docs_to_add[p] = batch[p]

\* the save of the call p has just completed: the file is a complete index
\* that holds the signatures of the batch and nothing else
SaveReplaces(p) ==
    (p \in LoadedUnparsable /\ pc[p] = "write" /\ pc'[p] = "return" /\ cur'[p].saved)
        => /\ file'.exists /\ file'.valid
           /\ IndexKeys(file'.idx) = {GetDocumentSignature(batch[p][i]) : i \in 1..Len(batch[p])}

\* C38: when the index file exists but cannot be parsed, _load_hash_index
\* does not fail and goes on with an empty index: the call that loads it
\* treats every chunk of its batch as new, and its save replaces the
\* unparsable file by a complete index of that batch.
C38_UnparsableIndexStartsEmpty ==
    /\ [](\A p \in LoadedUnparsable : EveryChunkNew(p))
    /\ [][\A p \in Procs : SaveReplaces(p)]_vars

\* an index of an earlier lifetime was left truncated by a failed write, no
\* save is under way, and a call that loaded it has inserted its batch, the
\* chunk already stored included, and saved a complete file
C38_Witness ==
    \E p \in LoadedUnparsable :
        /\ ~cur[p].load.saving
        /\ pc[p] = "return" /\ cur[p].saved
        /\ file.valid /\ file.old = file.idx
        /\ \E e \in store : e.call = 0 /\ \E i \in 1..Len(batch[p]) : batch[p][i] = e.doc

----------------------------------------------------------------------------
(* A property of the write path of one process, checked under              *)
(* SpecOneWorker.                                                           *)

\* C34: whatever add_documents_to_store calls one process has made, no two
\* entries of the store have the same signature, also when the chunks of
\* one batch share a signature.
C34_OneEntryPerSignature ==
    \A e1 \in store : \A e2 \in store :
        e1 # e2 => GetDocumentSignature(e1.doc) # GetDocumentSignature(e2.doc)

----------------------------------------------------------------------------
(* A property of worker processes that take their tasks in turn, checked   *)
(* under SpecTurns.                                                         *)

\* C36: no call inserts a chunk whose signature was in the index file when
\* the call started, whenever the process of the call loaded its own copy
\* of the index.
C36_NoInsertOfPersisted ==
    \A p \in Procs :
        pc[p] # "idle" =>
            \A e \in InsertedBy(cur[p].id) :
                GetDocumentSignature(e.doc) \notin cur[p].persisted

----------------------------------------------------------------------------
(* Properties of _get_document_signature, checked under SpecSig.            *)

\* two documents agree on source, page and the first 200 characters of text
SameKey(d1, d2) ==
    /\ ("source" \in DOMAIN d1.metadata) = ("source" \in DOMAIN d2.metadata)
    /\ "source" \in DOMAIN d1.metadata => d1.metadata.source = d2.metadata.source
    /\ ("page" \in DOMAIN d1.metadata) = ("page" \in DOMAIN d2.metadata)
    /\ "page" \in DOMAIN d1.metadata => d1.metadata.page = d2.metadata.page
    /\ Slice(d1.page_content, 200) = Slice(d2.page_content, 200)

\* C8: any two signature computations, in whatever process and at whatever
\* time, on documents that agree on source, page and the first 200 characters
\* of their text give the same signature, whatever the rest of the text and
\* the other metadata are.
C8_SignatureDependsOnKeyOnly ==
    \A r1 \in sig_log : \A r2 \in sig_log :
        SameKey(r1.doc, r2.doc) => r1.sig = r2.sig

C8_Witness ==
    \E r1 \in sig_log : \E r2 \in sig_log :
        /\ r1.proc # r2.proc
        /\ SameKey(r1.doc, r2.doc)
        /\ r1.doc.page_content # r2.doc.page_content
        /\ r1.doc.metadata # r2.doc.metadata
        /\ r1.sig = r2.sig

----------------------------------------------------------------------------
(* Properties of the query chain, checked under SpecQuery.                  *)

\* C9: the record a pipeline call returns rests on one evidence set, also
\* when chunks are inserted while the call runs: formatted_context is the
\* rendering of context_docs, and the answer was generated from that context.
\* (The claim derives this from one search and one rerank per call; every
\* call that returns has n_search = 3 and n_rerank = 3.)
C9_OutputsShareOneEvidenceSet ==
    q_pc = "DONE" =>
        \A r \in q_out :
            /\ r.formatted_context = FormatDocsWithSources(r.context_docs)
            /\ r.answer = AnswerTo(r.formatted_context, q_in.question)

\* C10: when a stage of any sub-chain raised, the call ends FAILED with the
\* error of a sub-chain that raised and returns no record; a record is
\* returned only when every sub-chain ended without error, and its
\* context_docs are the reranked output for the retrieved candidates.
C10_StageFailureFailsTheCall ==
    /\ (q_pc \in {"DONE", "FAILED"} /\ \E k \in KeySet : branch[k].pc = "failed")
          => /\ q_pc = "FAILED"
             /\ q_out = {}
             /\ \E k \in KeySet :
                   /\ branch[k].pc = "failed"
                   /\ q_err = {[key |-> k, stage |-> branch[k].err]}
    /\ q_out # {}
          => /\ q_pc = "DONE"
             /\ \A k \in KeySet : branch[k].pc = "done"
             /\ \A r \in q_out :
                   r.context_docs =
                       RerankDocs([base_docs |-> branch["context_docs"].base_docs,
                                   question |-> q_in.question])

C10_Witness ==
    /\ q_pc = "FAILED"
    /\ q_out = {}
    /\ branch["answer"].pc = "failed" /\ branch["answer"].err = "generate"
    /\ branch["context_docs"].pc = "done" /\ branch["context_docs"].out # <<>>
    /\ branch["formatted_context"].pc = "done"

C29_QueryIsReadOnly ==
    [][queryVars' # queryVars => UNCHANGED <<store, file, hash_index>>]_vars

\* a call has failed after its retrievals, on a store and an index that an
\* ingestion has filled
C29_Witness ==
    /\ q_pc = "FAILED"
    /\ n_search > 0
    /\ store # {}
    /\ file.exists /\ file.valid /\ file.idx # {}
    /\ hash_index["w1"].loaded

\* the stage a sub-chain may go to from a stage: the next one of its chain,
\* or its end by an error
StageOrder(k) ==
    {<<"retrieve", "rerank">>,
     <<"rerank", IF k = "context_docs" THEN "done" ELSE "format">>,
     <<"format", IF k = "formatted_context" THEN "done" ELSE "generate">>,
     <<"generate", "done">>}
        \cup {<<stage, "failed">> : stage \in {"retrieve", "rerank", "format", "generate"}}

\* what a sub-chain holds at each of its stages
StagesInOrder(k) ==
    LET b == branch[k]
    IN  /\ b.pc \in {"off", "retrieve"} => b.base_docs = <<>>
        /\ b.pc \in {"off", "retrieve", "rerank"} => b.docs = <<>> /\ b.context = <<>>
        /\ b.pc \in {"format", "generate", "done"}
              => b.docs = RerankDocs([base_docs |-> b.base_docs, question |-> q_in.question])
        /\ b.pc = "format" => b.context = <<>> /\ b.out = <<>>
        /\ b.pc = "generate"
              => /\ k = "answer"
                 /\ b.context = FormatDocsWithSources(b.docs)
                 /\ b.out = <<>>
        /\ b.pc = "done" /\ k = "answer"
              => /\ b.context = FormatDocsWithSources(b.docs)
                 /\ b.out = AnswerTo(b.context, q_in.question)

\* C30: in every sub-chain of a pipeline call the stages follow each other
\* as retrieve, rerank, format, generate; the reranker is given what the
\* retrieval of its sub-chain returned; the LLM is called after formatting,
\* with the formatted text of the reranked documents and the question of the
\* call; a call leaves 'running' only for DONE, when every sub-chain is
\* done, or for FAILED.
C30_StagesInOrder ==
    /\ [](\A k \in KeySet : StagesInOrder(k))
    /\ [][\A k \in KeySet :
             /\ (branch[k].pc # branch'[k].pc /\ q_pc' = "running" /\ q_pc = "running")
                   => <<branch[k].pc, branch'[k].pc>> \in StageOrder(k)
             /\ (branch[k].pc = "retrieve" /\ branch'[k].pc = "rerank")
                   => branch'[k].base_docs = RetrieveBaseDocs(q_in, store)
             /\ (branch[k].pc # "retrieve" /\ q_pc = "running")
                   => branch'[k].base_docs = branch[k].base_docs]_vars
    /\ [][(q_pc = "running" /\ q_pc' # "running")
             => /\ q_pc' \in {"DONE", "FAILED"}
                /\ q_pc' = "DONE" => \A k \in KeySet : branch[k].pc = "done"]_vars

\* a call is DONE; its answer was generated from the formatted text of the
\* documents its retrieval returned and its reranker kept
C30_Witness ==
    /\ q_pc = "DONE"
    /\ \A k \in KeySet : branch[k].pc = "done"
    /\ Len(branch["answer"].docs) >= 1
    /\ branch["answer"].out
          = AnswerTo(FormatDocsWithSources(branch["answer"].docs), q_in.question)
    /\ branch["answer"].docs = branch["answer"].base_docs

----------------------------------------------------------------------------
(* Properties of CrossEncoderReranker.rerank, checked under SpecRerank.     *)

\* the score the model of the reranker built gives to a document
ScoreOf(query, doc) ==
    LET self == CHOOSE r \in reranker : TRUE
    IN  self.model[<<query, doc.page_content>>]

\* C11: the documents rerank returns can be traced to positions of its input
\* so that scores never increase along the output and two documents of equal
\* score come in the order of their input positions; two calls with the same
\* query and candidates return the same sequence.
C11_StableDescendingOrder ==
    \A r \in rr_log :
        /\ \E pos \in [1..Len(r.out) -> 1..Len(r.docs)] :
              /\ \A i \in 1..Len(r.out) : r.docs[pos[i]] = r.out[i]
              /\ \A i \in 1..Len(r.out) : \A j \in 1..Len(r.out) :
                    i < j =>
                      /\ ScoreOf(r.query, r.out[i]) >= ScoreOf(r.query, r.out[j])
                      /\ ScoreOf(r.query, r.out[i]) = ScoreOf(r.query, r.out[j])
                            => pos[i] < pos[j]
        /\ \A r2 \in rr_log :
              (r2.query = r.query /\ r2.docs = r.docs) => r2.out = r.out

C11_Witness ==
    \E r \in rr_log : \E r2 \in rr_log :
        /\ r.docs = <<D1x, D1, D2>>
        /\ r.out = <<D1, D2, D1x>>
        /\ r2.n # r.n /\ r2.docs = r.docs /\ r2.out = r.out

\* the documents of seq with a score of at least s
CountAtLeast(query, seq, s) ==
    Cardinality({i \in 1..Len(seq) : ScoreOf(query, seq[i]) >= s})

\* the occurrences of the document d in seq
Occurrences(seq, d) == Cardinality({i \in 1..Len(seq) : seq[i] = d})

\* C12: rerank returns min(top_n, len(docs)) documents, each a candidate and
\* none more often than among the candidates, and for every score s it
\* returns as many documents scored s or higher as there are among the
\* candidates, up to top_n: the returned documents are the highest scored.
C12_TopNHighestScored ==
    \A r \in rr_log : \A self \in reranker :
        /\ Len(r.out) = Min(self.top_n, Len(r.docs))
        /\ Len(r.out) <= self.top_n
        /\ \A d \in Docs : Occurrences(r.out, d) <= Occurrences(r.docs, d)
        /\ \A s \in ScoreValues :
              CountAtLeast(r.query, r.out, s)
                  = Min(self.top_n, CountAtLeast(r.query, r.docs, s))

C12_Witness ==
    \E r \in rr_log : \E self \in reranker :
        /\ self.top_n = 2
        /\ r.docs = <<D1x, D1, D2>>
        /\ r.out = <<D1, D2>>

\* C13: _score_in_batches returns one score per candidate, in candidate
\* order, the scores one predict call on all pairs returns; and rerank
\* returns what it returns with every other batch_size.
C13_BatchingChangesNothing ==
    \A r \in rr_log : \A self \in reranker :
        /\ Len(r.scores) = Len(r.docs)
        /\ r.scores = Predict(self.model,
                               [i \in 1..Len(r.docs) |-> <<r.query, r.docs[i].page_content>>])
        /\ \A b \in 1..(MaxCandidates + 1) :
              r.out = Rerank(self.model, r.query, r.docs, self.top_n, b)

C13_Witness ==
    \E r \in rr_log : \E self \in reranker :
        /\ self.batch_size = 2 /\ Len(r.docs) = 3
        /\ r.scores = <<1, 2, 2>>
        /\ Len(r.out) = 3

\* the source, page and section a block of the formatted context shows
Shown(block) == <<block.kaynak, block.sayfa, block.bolum>>

\* ... and those of a document
ShownOf(doc) ==
    <<doc.metadata.source, ToString(doc.metadata.page), doc.metadata.section>>

----------------------------------------------------------------------------
(* Properties of retrieval and formatting, checked under SpecQuery.         *)

\* the caller gives a section, and not the all-sections value
FilterGiven(input_dict) ==
    /\ "section" \in DOMAIN input_dict
    /\ input_dict.section # ""
    /\ input_dict.section # ALL_SECTIONS

\* C14: a retrieval returns the stored chunks of the requested section, and
\* only those, when the caller gives a section other than the all-sections
\* value, and all stored chunks (up to k) when the caller gives no section,
\* an empty one or the all-sections value; the evidence of a record returned
\* for a filtered query has the requested section throughout.
C14_SectionFilter ==
    /\ [][\A k \in KeySet :
            (branch[k].pc = "retrieve" /\ branch'[k].pc = "rerank") =>
                LET docs == branch'[k].base_docs
                    matching ==
                        IF FilterGiven(q_in)
                        THEN {e \in store : e.doc.metadata.section = q_in.section}
                        ELSE store
                IN  /\ Len(docs) = Min(BASE_RETRIEVER_K, Cardinality(matching))
                    /\ \A i \in 1..Len(docs) : docs[i] \in {e.doc : e \in matching}
                    /\ FilterGiven(q_in) =>
                          \A i \in 1..Len(docs) : docs[i].metadata.section = q_in.section]_vars
    /\ [](\A r \in q_out :
            FilterGiven(q_in) =>
                \A i \in 1..Len(r.context_docs) :
                    r.context_docs[i].metadata.section = q_in.section)

C14_Witness ==
    /\ q_pc = "DONE"
    /\ FilterGiven(q_in) /\ q_in.section = "Methods"
    /\ \E e \in store : e.doc.metadata.section # "Methods"
    /\ \E r \in q_out : r.context_docs # <<>>

SENTINEL == <<[sentinel |-> NO_CONTEXT]>>

\* the sub-chain of key k has formatted its documents
HasFormatted(k) ==
    /\ k # "context_docs"
    /\ \/ branch[k].pc \in {"generate", "done"}
       \/ branch[k].pc = "failed" /\ branch[k].err = "generate"

\* C15: the text _format_docs_with_sources returns is the sentinel exactly
\* when the list it is given is empty, and is never empty; a record returned
\* for a query whose section no stored chunk has carries no evidence and the
\* sentinel as formatted_context.
C15_SentinelIffNoEvidence ==
    /\ \A k \in KeySet :
          HasFormatted(k) =>
              /\ (branch[k].context = SENTINEL) <=> (branch[k].docs = <<>>)
              /\ branch[k].context # <<>>
    /\ (FilterGiven(q_in) /\ \A e \in store : e.doc.metadata.section # q_in.section)
          => \A r \in q_out :
                /\ r.context_docs = <<>>
                /\ r.formatted_context = SENTINEL

C15_Witness ==
    /\ q_pc = "DONE"
    /\ FilterGiven(q_in) /\ q_in.section = "Results"
    /\ store # {}
    /\ \E r \in q_out : r.formatted_context = SENTINEL /\ r.context_docs = <<>>

----------------------------------------------------------------------------
(* Properties of process_pdf_task, checked under SpecTask.                  *)

\* C16: the task is attempted at most 1 + 3 times, and a retry of a document
\* that passes every check, during which no step fails for an outside
\* cause, runs the ingestion again and ends in success.
C16_RetrySucceedsOnceCleared ==
    /\ Len(t_runs) <= MAX_RETRIES + 1
    /\ t_doc = {PdfGood} =>
          \A i \in 2..Len(t_runs) :
              t_runs[i].fault = "none" => t_runs[i].outcome = "success"

\* C17: when text extraction has failed on a page of the document, the task
\* does not succeed, the input ends in the failed area, and neither the
\* store nor the index file holds a chunk of the document.
C17_ExtractionFailureWritesNothing ==
    t_flags.extract_failed =>
        /\ t_status # "success"
        /\ t_pc = "end" => t_pending = "failed"
        /\ \A e \in store : e.call = 0
        /\ IndexKeys(file.idx) \subseteq IndexKeys(EarlierIndex)

\* the task has failed for the document, its input is in FAILED_DIR, and
\* neither chunk_documents nor add_documents_to_store was called
Quarantined ==
    /\ t_status \in {"raised", "FAILURE"}
    /\ t_pending = "failed"
    /\ ~t_flags.chunk_called
    /\ ~t_flags.add_called

\* the characters of text on the first two pages
TextLen2(pages) ==
    CASE Len(pages) = 0 -> 0
      [] Len(pages) = 1 -> pages[1].page_content.len
      [] OTHER -> pages[1].page_content.len + pages[2].page_content.len

\* C18 as stated: a document that yields no pages, fewer than 100 characters
\* of text on its first two pages, no detectable language or a language
\* other than English and Turkish fails, is moved to the failed directory
\* and reaches neither chunk_documents nor add_documents_to_store.
C18_UnsupportedContentFails ==
    \A pages \in t_flags.checked : \A pdf \in t_doc :
        (\/ pages = <<>>
         \/ TextLen2(pages) < 100
         \/ pdf.lang = ""
         \/ pdf.lang \notin {"en", "tr"})
            => Quarantined

\* C18 as amended: the same, with the 100 characters counted on the sample
\* the check builds, the texts of the first two pages joined by one space.
C18_UnsupportedSampleFails ==
    \A pages \in t_flags.checked : \A pdf \in t_doc :
        (\/ pages = <<>>
         \/ SampleLen(pages) < 100
         \/ pdf.lang = ""
         \/ pdf.lang \notin {"en", "tr"})
            => Quarantined

C18_Witness ==
    /\ t_status = "FAILURE" /\ t_retries = MAX_RETRIES
    /\ t_pending = "failed"
    /\ \E pages \in t_flags.checked : pages # <<>> /\ SampleLen(pages) < 100
    /\ \E pdf \in t_doc : pdf.lang = "tr"

\* the functions the attempt has called, in order
CalledFns == [i \in 1..Len(t_calls) |-> t_calls[i].fn]

\* C24: an attempt of process_pdf_task that ends in success has called OCR
\* on the pending file, extraction on the file OCR wrote, chunking on the
\* pages extraction returned and add_documents_to_store on the chunks
\* chunking returned, each once and in this order; the pending file is
\* removed, not moved to FAILED_DIR, and the task returns status 'success',
\* the file name and, as chunks_added, the count add_documents_to_store
\* returned.
C24_SuccessPath ==
    t_status = "success" =>
        \A pdf \in t_doc :
            /\ CalledFns = <<"ocrmypdf.ocr", "extract_pages_from_pdf", "chunk_documents",
                             "add_documents_to_store">>
            /\ t_calls[1].args = <<PendingPath(pdf), ProcessedPath(pdf)>>
            /\ t_calls[2].args = <<t_calls[1].args[2]>>
            /\ t_calls[3].args = <<t_calls[2].back.returned>>
            /\ t_calls[4].args = <<t_calls[3].back.returned>>
            /\ t_calls[4].back = Returned(prev["w1"].ret)
            /\ prev["w1"].batch = t_calls[4].args[1]
            /\ t_pending = "removed"
            /\ t_ret = {[status |-> "success", file |-> pdf.name,
                         chunks_added |-> prev["w1"].ret]}

\* the two chunks of a document of two pages are added and reported
C24_Witness ==
    /\ t_status = "success"
    /\ t_doc = {PdfGood}
    /\ \E r \in t_ret : r.chunks_added = 2
    /\ Len(t_calls) = 4 /\ t_calls[4].args = <<(<<D1, D2>>)>>

\* C25: when extract_pages_from_pdf raises, the attempt calls neither
\* chunk_documents nor add_documents_to_store; the pending file is not
\* removed but moved to FAILED_DIR, and the attempt ends by raising the
\* error extraction raised: it returns nothing.
C25_ExtractionFailurePath ==
    \A i \in 1..Len(t_calls) :
        t_calls[i].fn = "extract_pages_from_pdf" /\ "raised" \in DOMAIN t_calls[i].back =>
            /\ i = Len(t_calls)
            /\ "chunk_documents" \notin {CalledFns[j] : j \in 1..Len(t_calls)}
            /\ "add_documents_to_store" \notin {CalledFns[j] : j \in 1..Len(t_calls)}
            /\ t_pending = "failed"
            /\ t_runs # <<>>
            /\ t_runs[Len(t_runs)].outcome = "raised"
            /\ t_runs[Len(t_runs)].fault = t_calls[i].back.raised
            /\ t_ret = {}
            /\ t_status \in {"raised", "FAILURE"}

\* the first attempt has ended with the error of extraction
C25_Witness ==
    /\ t_calls # <<>>
    /\ t_calls[Len(t_calls)] = StageCall("extract_pages_from_pdf",
                                         <<ProcessedPath(PdfGood)>>, Raised("open"))
    /\ t_pending = "failed"
    /\ Len(t_runs) = 1 /\ t_runs[1].fault = "open"

\* C33: when ocrmypdf raises EncryptedPdfError or InputFileError, the OCR
\* call is the only call the task makes to its stages: the input is in
\* FAILED_DIR, the task has returned status 'failed' with the reason
\* 'encrypted' or 'corrupted_pdf', it has raised nothing and no retry is
\* queued, and no page was extracted, no chunk made and nothing passed to
\* the store.
C33_RejectedByOcr ==
    \A i \in 1..Len(t_calls) :
        \A error \in {"EncryptedPdfError", "InputFileError"} :
            (t_calls[i].fn = "ocrmypdf.ocr" /\ t_calls[i].back = [raised |-> error])
                => /\ Len(t_calls) = 1
                   /\ t_pending = "failed"
                   /\ t_ret = {[status |-> "failed",
                                reason |-> IF error = "EncryptedPdfError"
                                           THEN "encrypted" ELSE "corrupted_pdf"]}
                   /\ t_status = "failed"
                   /\ t_pc = "end" /\ t_retries = 0
                   /\ Len(t_runs) = 1 /\ t_runs[1].outcome = "failed"
                   /\ t_pages = <<>> /\ t_chunks = <<>>
                   /\ ~t_flags.chunk_called /\ ~t_flags.add_called
                   /\ ncalls = 0 /\ \A e \in store : e.call = 0

\* the task has returned for an encrypted document
C33_Witness ==
    /\ t_pc = "end"
    /\ Len(t_calls) = 1
    /\ t_calls[1].back = [raised |-> "EncryptedPdfError"]
    /\ t_ret = {[status |-> "failed", reason |-> "encrypted"]}
    /\ t_pending = "failed"

\* C39: when an attempt of process_pdf_task has returned or raised, the
\* input is not in PENDING_DIR and the document is not in PROCESSED_DIR and
\* FAILED_DIR at once; after a success the copy in PROCESSED_DIR is there and
\* the input was removed, and after an attempt that raised at a step after
\* OCR the input is in FAILED_DIR and the copy in PROCESSED_DIR is gone.
C39_OneCopyLeft ==
    t_pc \in {"retry", "end"} =>
        /\ t_pending # "pending"
        /\ ~(t_processed /\ t_pending = "failed")
        /\ t_status = "success" => t_processed /\ t_pending = "removed"
        /\ (t_status \in {"raised", "FAILURE"} /\ t_runs[Len(t_runs)].step # "OCR")
              => ~t_processed /\ t_pending = "failed"

\* the first attempt wrote the copy and raised at the store step
C39_Witness ==
    /\ t_pc = "retry"
    /\ Len(t_runs) = 1 /\ t_runs[1].step = "STORE" /\ t_runs[1].outcome = "raised"
    /\ CalledFns[1] = "ocrmypdf.ocr" /\ "returned" \in DOMAIN t_calls[1].back
    /\ ~t_processed /\ t_pending = "failed"

----------------------------------------------------------------------------
(* A property of setup_rag_chain, checked under SpecSetup.                  *)

\* C19: a setup_rag_chain call during which a component could not be
\* initialized raises; it does not return None.
C19_InitFailureSurfaces ==
    \A c \in ComponentSet : s_ret.failed = c => s_ret.value = "raised"

----------------------------------------------------------------------------
(* A property of extract_pages_from_pdf, checked under SpecExtract.         *)

\* the positions of the recognized section headings on a page
HeadingsOn(page) == {k \in 1..Len(page.spans) : IsHeading(page, page.spans[k])}

Last(S) == CHOOSE x \in S : \A y \in S : y <= x

\* the heading recognized last on the pages 1..i, 'Unknown' without one
LastHeading(pdf, i) ==
    LET headed == {j \in 1..i : HeadingsOn(pdf.pages[j]) # {}}
    IN  IF headed = {} THEN "Unknown"
        ELSE LET page == pdf.pages[Last(headed)]
             IN  SectionMatch(page.spans[Last(HeadingsOn(page))].text)

\* C20: every page extract_pages_from_pdf returns carries its page number
\* and, as section, the heading recognized last on that page or an earlier
\* one of the document, 'Unknown' while none has been recognized.
C20_SectionContinuity ==
    \A r \in ex_log :
        /\ Len(r.out) = IF r.fail_at = 0 THEN Len(r.pdf.pages) ELSE r.fail_at - 1
        /\ \A i \in 1..Len(r.out) :
              /\ r.out[i].metadata.page = i
              /\ r.out[i].metadata.section = LastHeading(r.pdf, i)

C20_Witness ==
    \E r \in ex_log :
        /\ Len(r.out) = 3
        /\ HeadingsOn(r.pdf.pages[2]) = {}
        /\ [i \in 1..3 |-> r.out[i].metadata.section]
              = <<"Introduction", "Introduction", "Methods">>

\* C27: the pages extract_pages_from_pdf returns are numbered 1, 2, ..., n
\* in their order, n being the number of pages returned, and every page has
\* the file name of the path, without its directories, as source.
C27_PageNumbersAndSource ==
    \A r \in ex_log :
        /\ [i \in 1..Len(r.out) |-> r.out[i].metadata.page] = [i \in 1..Len(r.out) |-> i]
        /\ \A i \in 1..Len(r.out) :
              /\ r.out[i].metadata.source \in {"a.pdf", "b.pdf"}
              /\ r.pdf.path[Len(r.pdf.path)] = r.out[i].metadata.source

\* three pages of a file in a directory
C27_Witness ==
    \E r \in ex_log :
        /\ r.pdf.path = <<"app", "data", "b.pdf">>
        /\ [i \in 1..Len(r.out) |-> r.out[i].metadata.page] = <<1, 2, 3>>
        /\ \A i \in 1..3 : r.out[i].metadata.source = "b.pdf"

----------------------------------------------------------------------------
(* Properties of the heading detection, checked under SpecHeadings.         *)

\* twice the threshold of line 94 for a page: its median font size plus 1.0,
\* the median of a page without spans being 10.0
Threshold2(page) ==
    IF page.spans = <<>> THEN 22
    ELSE Median2([k \in 1..Len(page.spans) |-> page.spans[k].size]) + 2

\* the section with which the loop reaches the i-th page
SectionBefore(out, i) == IF i = 1 THEN "Unknown" ELSE out[i - 1].metadata.section

\* C32: the section of a page differs from the section the loop reached the
\* page with only if a span of the page matches the section vocabulary and
\* is bold or larger than the median font size of the page plus 1.0, and
\* the section is then the name such a span matched; on a page whose spans
\* are all non-bold and not larger than that threshold the section stays,
\* whatever the texts of the spans are.
C32_HeadingCandidates ==
    \A r \in ex_log : \A i \in 1..Len(r.out) :
        LET page == r.pdf.pages[i]
            section == r.out[i].metadata.section
        IN  /\ section # SectionBefore(r.out, i)
                  => \E k \in 1..Len(page.spans) :
                        /\ SectionMatch(page.spans[k].text) = section
                        /\ page.spans[k].bold \/ 2 * page.spans[k].size > Threshold2(page)
            /\ (\A k \in 1..Len(page.spans) :
                    ~page.spans[k].bold /\ 2 * page.spans[k].size <= Threshold2(page))
                  => section = SectionBefore(r.out, i)

\* beside body text of size 10 the section name of size 12 leaves the
\* section 'Unknown' and the one of size 13 sets it
C32_Witness ==
    \E r \in ex_log :
        /\ Len(r.out) = 2
        /\ r.pdf.pages[1].spans
              = <<Span("the cell", FALSE, 10), Span("Results and discussion", FALSE, 12)>>
        /\ r.pdf.pages[2].spans
              = <<Span("the cell", FALSE, 10), Span("Results and discussion", FALSE, 13)>>
        /\ r.out[1].metadata.section = "Unknown"
        /\ r.out[2].metadata.section = "Results"

\* C40: a page with a recognized heading is returned as one document that
\* holds the text of the whole page, the text before the heading included,
\* and has as section the name of the heading recognized last on the page,
\* wherever on the page that heading stands.
C40_LastHeadingLabelsPage ==
    \A r \in ex_log : \A i \in 1..Len(r.out) :
        LET page == r.pdf.pages[i]
        IN  HeadingsOn(page) # {}
                => /\ r.out[i].metadata.page = i
                   /\ r.out[i].page_content = page.text
                   /\ r.out[i].metadata.section
                          = SectionMatch(page.spans[Last(HeadingsOn(page))].text)

\* body text stands before the heading of the first page, and the second
\* page has two headings that name different sections
C40_Witness ==
    \E r \in ex_log :
        /\ Len(r.out) = 2
        /\ r.pdf.pages[1].spans
              = <<Span("the cell", FALSE, 10), Span("Introduction", TRUE, 10)>>
        /\ r.pdf.pages[2].spans
              = <<Span("Introduction", TRUE, 10), Span("Results and discussion", FALSE, 13)>>
        /\ r.out[1].metadata.section = "Introduction"
        /\ r.out[2].metadata.section = "Results"

----------------------------------------------------------------------------
(* Properties of chunk_documents, checked under SpecChunk.                  *)

\* a text that no separator but "" can split
SingleToken(text) ==
    Field(text, "newlines") \cup Field(text, "spaces") \cup Field(text, "dots") = {}

\* the characters of the page that the pieces c and d both hold
Shared(c, d) ==
    LET from == IF c.from >= d.from THEN c.from ELSE d.from
        to == Min(c.to, d.to)
    IN  IF to > from THEN to - from ELSE 0

\* C21: every chunk chunk_documents returns is at most 1500 characters long,
\* unless it is a single token longer than that; two chunks that follow
\* each other on a page have between 0 and 250 characters of the page in
\* common.
C21_ChunkSizeAndOverlap ==
    \A r \in ck_log :
        /\ \A k \in 1..Len(r.out) :
              \/ r.out[k].page_content.len <= CHUNK_SIZE
              \/ SingleToken(r.out[k].page_content)
        /\ \A i \in 1..Len(r.cuts) : \A k \in 1..(Len(r.cuts[i]) - 1) :
              /\ Shared(r.cuts[i][k], r.cuts[i][k + 1]) >= 0
              /\ Shared(r.cuts[i][k], r.cuts[i][k + 1]) <= CHUNK_OVERLAP

\* a token of 1600 letters is cut into a chunk of 1500 characters and a
\* second chunk that repeats the last 250 of them
C21_Witness ==
    \E r \in ck_log :
        /\ Len(r.pages) = 1
        /\ r.pages[1].page_content = ChToken
        /\ Len(r.out) = 2
        /\ r.out[1].page_content.len = CHUNK_SIZE
        /\ r.out[2].page_content.len = 350
        /\ Shared(r.cuts[1][1], r.cuts[1][2]) = CHUNK_OVERLAP

RECURSIVE ChunksBefore(_, _)
\* the number of pieces the pages before the i-th are cut into
ChunksBefore(cuts, i) ==
    IF i <= 1 THEN 0 ELSE ChunksBefore(cuts, i - 1) + Len(cuts[i - 1])

\* C22: the chunks chunk_documents returns are the pieces of the first page,
\* then those of the second, and so on, the pieces of a page in the order of
\* their position in its text; every chunk carries the metadata of its
\* page, unchanged.
C22_MetadataAndOrder ==
    \A r \in ck_log :
        /\ Len(r.out) = ChunksBefore(r.cuts, Len(r.pages) + 1)
        /\ \A i \in 1..Len(r.pages) : \A k \in 1..Len(r.cuts[i]) :
              LET chunk == r.out[ChunksBefore(r.cuts, i) + k]
                  piece == r.cuts[i][k]
              IN  /\ chunk.metadata = r.pages[i].metadata
                  /\ chunk.page_content = Sub(r.pages[i].page_content, piece.from, piece.to)
                  /\ k > 1 => /\ r.cuts[i][k - 1].from < piece.from
                              /\ r.cuts[i][k - 1].to < piece.to

\* a page of several chunks in one section, then a page in another
C22_Witness ==
    \E r \in ck_log :
        /\ Len(r.pages) = 2
        /\ r.pages[1].page_content = ChWords
        /\ r.pages[1].metadata # r.pages[2].metadata
        /\ [k \in 1..Len(r.out) |-> r.out[k].metadata.section]
              = <<"Introduction", "Introduction", "Introduction", "Methods", "Methods">>
        /\ [k \in 1..Len(r.out) |-> r.out[k].metadata.page] = <<1, 1, 1, 2, 2>>

----------------------------------------------------------------------------
(* A property of both components, checked under SpecComponents.             *)

\* C23: chunk_documents on no page returns no chunk and never reaches
\* text_splitter.split_documents; rerank on no candidate returns no document
\* and never reaches self.model.predict.  Neither call raises: each has its
\* result in the log.
C23_EmptyInputIsNoError ==
    /\ \A r \in ck_log :
          r.pages = <<>> => r.out = <<>> /\ r.split_documents = <<>>
    /\ \A r \in rr_log :
          r.docs = <<>> => r.out = <<>> /\ r.predict = <<>>

\* both components have been called on an empty list
C23_Witness ==
    /\ \E r \in ck_log : r.pages = <<>>
    /\ \E r \in rr_log : r.docs = <<>> /\ r.out = <<>>

====
